---- MODULE Spec2Model ----
(***************************************************************************)
(* A model of the sparse Merkle tree of centrifuge/go-merkle.              *)
(*                                                                         *)
(* Two revisions of the SMT are modelled:                                  *)
(*   - the array-of-levels SMT (Generate(nonEmptyLeaves, totalSize),        *)
(*     RootHash, GetMerkelProof), variable smt;                            *)
(*   - the map-of-nodes SMT of smt.go (Generate(blocks), GetRoot),          *)
(*     variable blockTree.                                                 *)
(*                                                                         *)
(* Byte strings are sequences of atoms.  An atom is a raw byte <<n>> or    *)
(* the output <<"md5", input>> of the hash primitive over the byte string  *)
(* input: the primitive is modelled as injective, and a digest is the      *)
(* one-atom byte string holding the output.  Concatenation is \o.          *)
(***************************************************************************)
EXTENDS Integers, Sequences, FiniteSets, TLC

VARIABLES
    smt,            \* the array-of-levels SMT struct
    blockTree,      \* the map-of-nodes SMT struct of smt.go
    hashes,         \* the hash.Hash objects, by name
    call,           \* the last call made on the tree and its arguments
    result,         \* what the last call returned (or that it panicked)
    generateCalls,  \* number of Generate calls made so far
    generated,      \* TRUE once a Generate call has returned nil
    built           \* the arguments of the last Generate call that returned nil

vars == <<smt, blockTree, hashes, call, result, generateCalls, generated, built>>

----------------------------------------------------------------------------
(* Bounds of the model. *)

MaxTotalSize == 8
MaxLeaves == 9
MaxLeafNo == 9
MaxFailAt == 3
MaxGenerate == 2
MaxBlocks == 4
WideHeight == 4
MaxWideLeaves == 4
MaxTwoTotal == 4
MaxTwoLeaves == 2
MaxTwoLeafNo == 1
MaxWrites == 4
MaxTreeBlocks == 5
MaxLeafIndex == 5

----------------------------------------------------------------------------
(* Arithmetic helpers of merkle.go. *)

RECURSIVE BitAnd(_, _)
BitAnd(a, b) ==
    IF a = 0 \/ b = 0 THEN 0
    ELSE (IF a % 2 = 1 /\ b % 2 = 1 THEN 1 ELSE 0) + 2 * BitAnd(a \div 2, b \div 2)

isPowerOfTwo(n) == n # 0 /\ BitAnd(n, n - 1) = 0

\* the number of right shifts by one that reduce x to 0
RECURSIVE shiftCount(_)
shiftCount(x) == IF x = 0 THEN 0 ELSE 1 + shiftCount(x \div 2)

logBaseTwo(x) == IF x = 0 THEN 0 ELSE shiftCount(x) - 1

\* uint(1) << k
RECURSIVE Pow2(_)
Pow2(k) == IF k = 0 THEN 1 ELSE 2 * Pow2(k - 1)

----------------------------------------------------------------------------
(* The hash primitive and the test decorators around it.                   *)
(* A hash object holds the bytes written since the last Reset (acc), the   *)
(* number of Write calls (writes, the error decorator's Count), the number *)
(* of Sum calls (sums, the count decorator's Count) and the write at which *)
(* it starts to fail (failAt, CountHappenError; 0: it never fails).        *)

NoBytes == <<>>
HashError == "Hash error"
InvalidSize == "Leaves number of SMT tree should be power of 2"
LeafOverflow == "NonEmptyLeaves is bigger than totalSize "

md5(bytes) == << <<"md5", bytes>> >>

NewHash(failAt) == [acc |-> NoBytes, writes |-> 0, sums |-> 0, failAt |-> failAt]

Write(h, p) ==
    LET count == h.writes + 1 IN
    IF h.failAt > 0 /\ count >= h.failAt
    THEN [h |-> [h EXCEPT !.writes = count], err |-> HashError]
    ELSE [h |-> [h EXCEPT !.writes = count, !.acc = @ \o p], err |-> ""]

Sum(h) == [h |-> [h EXCEPT !.sums = @ + 1], hash |-> md5(h.acc)]

\* variant: Reset leaves the bytes written so far in the hash object
Reset_keeps(h) == h

Reset(h) == [h EXCEPT !.acc = NoBytes]

----------------------------------------------------------------------------
(* The array-of-levels SMT.  Every operation takes the machine             *)
(* m = [smt |-> the struct, hashes |-> the hash objects] and returns the   *)
(* machine it leaves, err (the error returned, "" for nil), panic (TRUE    *)
(* when it ended in a run-time panic, err then naming the panic) and its   *)
(* value.                                                                  *)

Ret(m, err, val) == [m |-> m, err |-> err, panic |-> FALSE, val |-> val]
PanicWith(m, why) == [m |-> m, err |-> why, panic |-> TRUE, val |-> NoBytes]
Panic(m) == PanicWith(m, "panic: index out of range")

\* what a caller that returns on a callee's error returns: ([]byte{}, err)
PanicOrErr(r) == IF r.panic THEN r ELSE Ret(r.m, r.err, NoBytes)

InRange(seq, i) == i >= 0 /\ i < Len(seq)
At(seq, i) == seq[i + 1]

\* Only({ e(x) : x \in {call} }) is e(call), with the call evaluated once
Only(S) == CHOOSE x \in S : TRUE

emptyLeafHash(hs, id) ==
    LET w == Write(hs[id], NoBytes) IN
    IF w.err # ""
    THEN [hashes |-> [hs EXCEPT ![id] = Reset(w.h)], err |-> w.err, hash |-> NoBytes]
    ELSE LET s == Sum(w.h) IN
         [hashes |-> [hs EXCEPT ![id] = Reset(s.h)], err |-> "", hash |-> s.hash]

newSMT(leafHash, nonLeafHash, emptyHash) ==
    [nodesWithoutEmptyLeavesSubTree |-> <<>>,
     levelsUpHashOfEmptyLeaves |-> <<emptyHash>>,
     emptyLeafHash |-> emptyHash,
     leafHash |-> leafHash,
     nonLeafHash |-> nonLeafHash,
     treeHeight |-> 0,
     noOfNonEmptyLeaves |-> 0]

\* variant: without a leaf hash the leaf is hashed with the non-leaf hash
leafHashFunc_hashed(m, leaf) ==
    Only({
    IF w.err # ""
    THEN Ret([m EXCEPT !.hashes[m.smt.nonLeafHash] = Reset(w.h)], w.err, NoBytes)
    ELSE Only({ Ret([m EXCEPT !.hashes[m.smt.nonLeafHash] = Reset(s.h)], "", s.hash)
                : s \in {Sum(w.h)} })
    : w \in {Write(m.hashes[IF m.smt.leafHash = "nil" THEN m.smt.nonLeafHash
                            ELSE m.smt.leafHash], leaf)} })

leafHashFunc(m, leaf) ==
    IF m.smt.leafHash = "nil" THEN Ret(m, "", leaf)
    ELSE Only({
         IF w.err # ""
         THEN Ret([m EXCEPT !.hashes[m.smt.leafHash] = Reset(w.h)], w.err, NoBytes)
         ELSE Only({ Ret([m EXCEPT !.hashes[m.smt.leafHash] = Reset(s.h)], "", s.hash)
                     : s \in {Sum(w.h)} })
         : w \in {Write(m.hashes[m.smt.leafHash], leaf)} })

\* variant: Reset called before the successful return only, not deferred
parentHash_resetOnSuccess(m, item1, item2) ==
    Only({
    IF w1.err # ""
    THEN Ret([m EXCEPT !.hashes[m.smt.nonLeafHash] = w1.h], w1.err, NoBytes)
    ELSE Only({
         IF w2.err # ""
         THEN Ret([m EXCEPT !.hashes[m.smt.nonLeafHash] = w2.h], w2.err, NoBytes)
         ELSE Only({ Ret([m EXCEPT !.hashes[m.smt.nonLeafHash] = Reset(s.h)], "", s.hash)
                     : s \in {Sum(w2.h)} })
         : w2 \in {Write(w1.h, item2)} })
    : w1 \in {Write(m.hashes[m.smt.nonLeafHash], item1)} })

\* variant: item2 written before item1
parentHash_swapped(m, item1, item2) ==
    Only({
    IF w1.err # ""
    THEN Ret([m EXCEPT !.hashes[m.smt.nonLeafHash] = Reset(w1.h)], w1.err, NoBytes)
    ELSE Only({
         IF w2.err # ""
         THEN Ret([m EXCEPT !.hashes[m.smt.nonLeafHash] = Reset(w2.h)], w2.err, NoBytes)
         ELSE Only({ Ret([m EXCEPT !.hashes[m.smt.nonLeafHash] = Reset(s.h)], "", s.hash)
                     : s \in {Sum(w2.h)} })
         : w2 \in {Write(w1.h, item1)} })
    : w1 \in {Write(m.hashes[m.smt.nonLeafHash], item2)} })

parentHash(m, item1, item2) ==
    Only({
    IF w1.err # ""
    THEN Ret([m EXCEPT !.hashes[m.smt.nonLeafHash] = Reset(w1.h)], w1.err, NoBytes)
    ELSE Only({
         IF w2.err # ""
         THEN Ret([m EXCEPT !.hashes[m.smt.nonLeafHash] = Reset(w2.h)], w2.err, NoBytes)
         ELSE Only({ Ret([m EXCEPT !.hashes[m.smt.nonLeafHash] = Reset(s.h)], "", s.hash)
                     : s \in {Sum(w2.h)} })
         : w2 \in {Write(w1.h, item2)} })
    : w1 \in {Write(m.hashes[m.smt.nonLeafHash], item1)} })

\* the loop of computeEmptyLeavesSubTreeHash, from i on
RECURSIVE computeEmptyLoop(_, _, _, _)
computeEmptyLoop(m, lastLevelHash, i, maxHeight) ==
    IF ~(i < maxHeight) THEN Ret(m, "", NoBytes)
    ELSE Only({
         IF p.err # "" THEN Ret(p.m, p.err, NoBytes)
         ELSE computeEmptyLoop(
                  [p.m EXCEPT !.smt.levelsUpHashOfEmptyLeaves = Append(@, p.val)],
                  p.val, i + 1, maxHeight)
         : p \in {parentHash(m, lastLevelHash, lastLevelHash)} })

\* variant: the loop started at 0, one digest more than the height needs
computeEmptyLeavesSubTreeHash_fromZero(m, maxHeight) ==
    computeEmptyLoop(m, m.smt.emptyLeafHash, 0, maxHeight)

computeEmptyLeavesSubTreeHash(m, maxHeight) ==
    computeEmptyLoop(m, m.smt.emptyLeafHash, 1, maxHeight)

\* the loop of buildLeavesNodes, from i on; val is the slice hashes
RECURSIVE buildLeavesLoop(_, _, _, _)
buildLeavesLoop(m, nonEmptyLeaves, i, hashes_) ==
    IF ~(i < Len(nonEmptyLeaves)) THEN Ret(m, "", hashes_)
    ELSE Only({
         IF l.err # "" THEN Ret(l.m, l.err, hashes_)
         ELSE buildLeavesLoop(l.m, nonEmptyLeaves, i + 1, Append(hashes_, l.val))
         : l \in {leafHashFunc(m, At(nonEmptyLeaves, i))} })

buildLeavesNodes(m, nonEmptyLeaves) ==
    Only({
    IF r.err # "" THEN Ret(r.m, r.err, NoBytes)
    ELSE Ret([r.m EXCEPT !.smt.nodesWithoutEmptyLeavesSubTree = Append(@, r.val)],
             "", NoBytes)
    : r \in {buildLeavesLoop(m, nonEmptyLeaves, 0, <<>>)} })

\* the pair loop of buildInternalOneLevelNodes, from i on; val is the slice hashes
RECURSIVE buildPairsLoop(_, _, _, _)
buildPairsLoop(m, lastLevelNodesHash, i, hashes_) ==
    IF ~(i < Len(lastLevelNodesHash) \div 2) THEN Ret(m, "", hashes_)
    ELSE Only({
         IF p.err # "" THEN Ret(p.m, p.err, hashes_)
         ELSE buildPairsLoop(p.m, lastLevelNodesHash, i + 1, Append(hashes_, p.val))
         : p \in {parentHash(m, At(lastLevelNodesHash, 2 * i),
                             At(lastLevelNodesHash, 2 * i + 1))} })

\* variant: an odd end always paired with the empty leaf digest
siblingEmptyTreeIndex_leaf(treeHeight, levelsNo) == 0

\* the index of the empty-subtree digest paired with the odd node of a level
siblingEmptyTreeIndex(treeHeight, levelsNo) == treeHeight - 1 - levelsNo

\* variant: the odd node's parent built with the arguments exchanged
oddParentHash_emptyLeft(m, node, siblingEmptyTreeHash) ==
    parentHash(m, siblingEmptyTreeHash, node)

\* the parentHash call of the odd end: the node left, the empty subtree right
oddParentHash(m, node, siblingEmptyTreeHash) ==
    parentHash(m, node, siblingEmptyTreeHash)

\* variant: the odd node of a level not carried up
buildOddEnd_dropped(m, levelsNo, lastLevelNodesHash, hashes_) ==
    Ret([m EXCEPT !.smt.nodesWithoutEmptyLeavesSubTree = Append(@, hashes_)],
        "", NoBytes)

\* the odd end of buildInternalOneLevelNodes: hashes holds the pairs' parents
buildOddEnd(m, levelsNo, lastLevelNodesHash, hashes_) ==
    IF Len(lastLevelNodesHash) % 2 # 0
    THEN IF ~InRange(m.smt.levelsUpHashOfEmptyLeaves,
                     siblingEmptyTreeIndex(m.smt.treeHeight, levelsNo))
         THEN Panic(m)
         ELSE Only({
              IF p.err # "" THEN Ret(p.m, p.err, NoBytes)
              ELSE Ret([p.m EXCEPT !.smt.nodesWithoutEmptyLeavesSubTree =
                                       Append(@, Append(hashes_, p.val))],
                       "", NoBytes)
              : p \in {oddParentHash(m,
                         At(lastLevelNodesHash, Len(lastLevelNodesHash) - 1),
                         At(m.smt.levelsUpHashOfEmptyLeaves,
                            siblingEmptyTreeIndex(m.smt.treeHeight, levelsNo)))} })
    ELSE Ret([m EXCEPT !.smt.nodesWithoutEmptyLeavesSubTree = Append(@, hashes_)],
             "", NoBytes)

buildInternalOneLevelNodes(m, levelsNo) ==
    IF ~InRange(m.smt.nodesWithoutEmptyLeavesSubTree, m.smt.treeHeight - 1 - levelsNo)
    THEN Panic(m)
    ELSE Only({
         Only({
         IF pairs.err # "" THEN Ret(pairs.m, pairs.err, NoBytes)
         ELSE buildOddEnd(pairs.m, levelsNo, lastLevelNodesHash, pairs.val)
         : pairs \in {buildPairsLoop(m, lastLevelNodesHash, 0, <<>>)} })
         : lastLevelNodesHash \in {At(m.smt.nodesWithoutEmptyLeavesSubTree,
                                      m.smt.treeHeight - 1 - levelsNo)} })

\* the level loop of buildAllLevelNodes, from i down
RECURSIVE buildLevelsLoop(_, _)
buildLevelsLoop(m, i) ==
    IF ~(i > 1) THEN Ret(m, "", NoBytes)
    ELSE Only({
         IF r.panic \/ r.err # "" THEN r
         ELSE buildLevelsLoop(r.m, i - 1)
         : r \in {buildInternalOneLevelNodes(m, i - 1)} })

buildAllLevelNodes(m, nonEmptyLeaves) ==
    Only({
    IF r.err # "" THEN r
    ELSE buildLevelsLoop(r.m, r.m.smt.treeHeight)
    : r \in {buildLeavesNodes(m, nonEmptyLeaves)} })

\* variant: the leaf count compared before the size is validated
generateCheck_overflowFirst(leafCount, totalSize) ==
    IF leafCount > totalSize THEN LeafOverflow
    ELSE IF ~isPowerOfTwo(totalSize) THEN InvalidSize
    ELSE ""

\* variant: a full tree (leaf count equal to the size) rejected
generateCheck_fullRejected(leafCount, totalSize) ==
    IF ~isPowerOfTwo(totalSize) THEN InvalidSize
    ELSE IF leafCount >= totalSize THEN LeafOverflow
    ELSE ""

\* the argument checks of Generate: the error returned, "" when both pass
generateCheck(leafCount, totalSize) ==
    IF ~isPowerOfTwo(totalSize) THEN InvalidSize
    ELSE IF leafCount > totalSize THEN LeafOverflow
    ELSE ""

\* variant: the floor of the base-2 logarithm in place of the shift count
maxEmtySubTreeHeight_log(totalSize, leafCount) == logBaseTwo(totalSize - leafCount)

\* variant: the chain of empty-subtree digests always built to the full height
maxEmtySubTreeHeight_full(totalSize, leafCount) == logBaseTwo(totalSize) + 1

\* maxEmtySubTreeHeight of Generate: the shifts that reduce noOfEmtpyLeaves to 0
maxEmtySubTreeHeight(totalSize, leafCount) == shiftCount(totalSize - leafCount)

Generate(m, nonEmptyLeaves, totalSize) ==
    IF generateCheck(Len(nonEmptyLeaves), totalSize) # ""
    THEN Ret(m, generateCheck(Len(nonEmptyLeaves), totalSize), NoBytes)
    ELSE Only({
         IF c.err # "" THEN c
         ELSE buildAllLevelNodes(c.m, nonEmptyLeaves)
         : c \in {computeEmptyLeavesSubTreeHash(
                      [m EXCEPT !.smt.treeHeight = logBaseTwo(totalSize) + 1,
                                !.smt.noOfNonEmptyLeaves = Len(nonEmptyLeaves)],
                      maxEmtySubTreeHeight(totalSize, Len(nonEmptyLeaves)))} })

RootHash(m) ==
    IF m.smt.noOfNonEmptyLeaves = 0
    THEN Ret(m, "", At(m.smt.levelsUpHashOfEmptyLeaves,
                       Len(m.smt.levelsUpHashOfEmptyLeaves) - 1))
    ELSE LET top == m.smt.treeHeight - 1 IN
         IF ~InRange(m.smt.nodesWithoutEmptyLeavesSubTree, top) THEN Panic(m)
         ELSE IF ~InRange(At(m.smt.nodesWithoutEmptyLeavesSubTree, top), 0)
         THEN Panic(m)
         ELSE Ret(m, "", At(At(m.smt.nodesWithoutEmptyLeavesSubTree, top), 0))

\* the index of the empty-subtree digest used for a sibling in the empty region
proofEmptyIndex(treeHeight, level) == level + 1

\* val is the ProofNode [Hash |-> digest, Left |-> BOOLEAN]
proofNodeAt(m, index, level) ==
    LET l == m.smt.treeHeight - level - 1 IN
    IF ~InRange(m.smt.nodesWithoutEmptyLeavesSubTree, l) THEN Panic(m)
    ELSE
    LET hashes_ == At(m.smt.nodesWithoutEmptyLeavesSubTree, l)
        left == (index % 2 = 1) IN
    IF left
    THEN IF ~InRange(hashes_, index - 1) THEN Panic(m)
         ELSE Ret(m, "", [Hash |-> At(hashes_, index - 1), Left |-> TRUE])
    ELSE IF Len(hashes_) - 1 < index + 1
         THEN LET e == proofEmptyIndex(m.smt.treeHeight, level) IN
              IF ~InRange(m.smt.levelsUpHashOfEmptyLeaves, e) THEN Panic(m)
              ELSE Ret(m, "", [Hash |-> At(m.smt.levelsUpHashOfEmptyLeaves, e),
                               Left |-> FALSE])
         ELSE Ret(m, "", [Hash |-> At(hashes_, index + 1), Left |-> FALSE])

\* variant: each proof node is put in front of those found so far
RECURSIVE proofLoop_prepend(_, _, _, _)
proofLoop_prepend(m, index, i, proofs) ==
    IF ~(i > 0) THEN Ret(m, "", proofs)
    ELSE Only({
         IF p.panic THEN p
         ELSE proofLoop_prepend(m, index \div 2, i - 1, <<p.val>> \o proofs)
         : p \in {proofNodeAt(m, index, i)} })

\* the loop of GetMerkelProof, from i down
RECURSIVE proofLoop(_, _, _, _)
proofLoop(m, index, i, proofs) ==
    IF ~(i > 0) THEN Ret(m, "", proofs)
    ELSE Only({
         IF p.panic THEN p
         ELSE proofLoop(m, index \div 2, i - 1, Append(proofs, p.val))
         : p \in {proofNodeAt(m, index, i)} })

\* level := int(self.treeHeight - 1): for treeHeight = 0 the unsigned
\* difference wraps to 2^64 - 1 and its conversion to int is -1, so that the
\* conversion of the wrapped difference is treeHeight - 1 in every case.
GetMerkelProof(m, leafNo) ==
    proofLoop(m, leafNo, m.smt.treeHeight - 1, <<>>)

----------------------------------------------------------------------------
(* The map-of-nodes SMT of smt.go.  The machine is                         *)
(* m = [tree |-> the struct, hashes |-> the hash objects].                 *)

\* fmt.Sprintf("%x", hash): the hexadecimal text of a byte string
Hex(hash) == <<"%x", hash>>

Nil == [kind |-> "nil"]

NewLeafNode(hash) == [kind |-> "LeafNode", Hash |-> hash]

NewNodeWithAtLeastOneNonEmptyLeafInLeftChild(hash, left, right) ==
    [kind |-> "NodeWithAtLeastOneNonEmptyLeafInLeftChild", Hash |-> hash,
     LeftChildHashHexString |-> left, RightChildHashHexString |-> right]

NewNodeWithAllEmptyLeaf(index) == [kind |-> "NodeWithAllEmptyLeaf", Index |-> index]

\* a Go map: the value at key, nil when absent; and the map after map[key] = node
MapGet(nodes, key) == IF key \in DOMAIN nodes THEN nodes[key] ELSE Nil
MapPut(nodes, key, node) == (key :> node) @@ nodes

newSMT_map(leafHash, nonLeafHash, emptyHash) ==
    [Nodes |-> <<>>,
     Root |-> NoBytes,
     RootNode |-> Nil,
     LeafHash |-> leafHash,
     NonLeafHash |-> nonLeafHash,
     EmptyLeafHash |-> emptyHash,
     cachedAllLevelsHashOfEmptyLeaves |-> <<emptyHash>>,
     cachedAllLevelsHashHexOfEmptyLeaves |-> <<Hex(emptyHash)>>,
     treeHeight |-> 0]

parentHash_map(m, item1, item2) ==
    Only({
    IF w.err # ""
    THEN Ret([m EXCEPT !.hashes[m.tree.NonLeafHash] = Reset(w.h)], w.err, NoBytes)
    ELSE Only({ Ret([m EXCEPT !.hashes[m.tree.NonLeafHash] = Reset(s.h)], "", s.hash)
                : s \in {Sum(w.h)} })
    : w \in {Write(m.hashes[m.tree.NonLeafHash], item1 \o item2)} })

isEmptyLeaf(m, item) ==
    IF m.tree.LeafHash = "nil" THEN item = m.tree.EmptyLeafHash
    ELSE item = NoBytes

addLeafNode(m, hash) ==
    [m EXCEPT !.tree.Nodes = MapPut(@, Hex(hash), NewLeafNode(hash))]

leafHash(m, leaf) ==
    IF m.tree.LeafHash = "nil" THEN Ret(addLeafNode(m, leaf), "", leaf)
    ELSE IF isEmptyLeaf(m, leaf)
    THEN Ret(addLeafNode(m, m.tree.EmptyLeafHash), "", m.tree.EmptyLeafHash)
    ELSE Only({
         IF w.err # ""
         THEN Ret([m EXCEPT !.hashes[m.tree.LeafHash] = Reset(w.h)], w.err, NoBytes)
         ELSE Only({ Ret(addLeafNode([m EXCEPT !.hashes[m.tree.LeafHash] = Reset(s.h)],
                                     s.hash),
                         "", s.hash)
                     : s \in {Sum(w.h)} })
         : w \in {Write(m.hashes[m.tree.LeafHash], leaf)} })

addNodeWithAllEmptyLeaf(m, hash) ==
    [m EXCEPT
       !.tree.cachedAllLevelsHashOfEmptyLeaves = Append(@, hash),
       !.tree.Nodes = MapPut(@, Hex(hash),
           NewNodeWithAllEmptyLeaf(Len(m.tree.cachedAllLevelsHashOfEmptyLeaves))),
       !.tree.cachedAllLevelsHashHexOfEmptyLeaves = Append(@, Hex(hash))]

RECURSIVE ComputeEmptyLeavesSubTreeHash(_, _)
ComputeEmptyLeavesSubTreeHash(m, leavesNumber) ==
    IF 2 = leavesNumber
    THEN Only({
         IF p.err # "" THEN Ret(p.m, p.err, NoBytes)
         ELSE Ret(addNodeWithAllEmptyLeaf(p.m, p.val), "", p.val)
         : p \in {parentHash_map(m, m.tree.EmptyLeafHash, m.tree.EmptyLeafHash)} })
    ELSE IF Len(m.tree.cachedAllLevelsHashOfEmptyLeaves) > logBaseTwo(leavesNumber)
    THEN Ret(m, "", At(m.tree.cachedAllLevelsHashOfEmptyLeaves,
                       logBaseTwo(leavesNumber)))
    ELSE Only({
         IF next.err # "" THEN Ret(next.m, "", NoBytes)
         ELSE Only({
              IF combined.err # "" THEN Ret(combined.m, "", NoBytes)
              ELSE Ret(addNodeWithAllEmptyLeaf(combined.m, combined.val),
                       "", combined.val)
              : combined \in {parentHash_map(next.m, next.val, next.val)} })
         : next \in {ComputeEmptyLeavesSubTreeHash(m, leavesNumber \div 2)} })

addNodeWithAtLeastOneNonEmptyLeafInLeftChild(m, hash, leftHash, rightHash) ==
    [m EXCEPT !.tree.Nodes = MapPut(@, Hex(hash),
        NewNodeWithAtLeastOneNonEmptyLeafInLeftChild(hash, Hex(leftHash),
                                                     Hex(rightHash)))]

\* the two-leaf case of GenerateSMT
generateTwoLeaves(m, start, blocks) ==
    Only({
    IF left.err # "" THEN Ret(left.m, "", NoBytes)
    ELSE IF ~InRange(blocks, start + 1) THEN Panic(left.m)
    ELSE Only({
         IF right.err # "" THEN Ret(right.m, "", NoBytes)
         ELSE Only({
              IF hash.err # "" THEN Ret(hash.m, "", NoBytes)
              ELSE Ret(addNodeWithAtLeastOneNonEmptyLeafInLeftChild(
                           hash.m, hash.val, left.val, right.val),
                       "", hash.val)
              : hash \in {parentHash_map(right.m, left.val, right.val)} })
         : right \in {leafHash(left.m, At(blocks, start + 1))} })
    : left \in {leafHash(m, At(blocks, start))} })

\* the end of GenerateSMT: the parent of the two halves
generateParent(m, leftHash, rightHash) ==
    Only({
    IF hash.err # "" THEN Ret(hash.m, "", NoBytes)
    ELSE Ret(addNodeWithAtLeastOneNonEmptyLeafInLeftChild(
                 hash.m, hash.val, leftHash, rightHash),
             "", hash.val)
    : hash \in {parentHash_map(m, leftHash, rightHash)} })

StackOverflow(m) == PanicWith(m, "fatal error: stack overflow")

\* A call of GenerateSMT on the range it was itself called with, made before
\* anything has changed, repeats without end: the goroutine's stack overflows.
RECURSIVE GenerateSMT(_, _, _, _)
GenerateSMT(m, start, end, blocks) ==
    IF ~InRange(blocks, start) THEN Panic(m)
    ELSE IF isEmptyLeaf(m, At(blocks, start))
    THEN ComputeEmptyLeavesSubTreeHash(m, (end - start) + 1)
    ELSE IF (end - start) + 1 = 2 THEN generateTwoLeaves(m, start, blocks)
    ELSE
    LET totalEle == (end - start) + 1
        leftStart == start
        leftEnd == start + (totalEle \div 2) - 1
        rightStart == leftEnd + 1
        rightEnd == end
    IN
    IF ~InRange(blocks, rightStart) THEN Panic(m)
    ELSE Only({
         IF right.panic \/ right.err # "" THEN PanicOrErr(right)
         ELSE Only({
              IF left.panic \/ left.err # "" THEN PanicOrErr(left)
              ELSE generateParent(left.m, left.val, right.val)
              : left \in {GenerateSMT(right.m, leftStart, leftEnd, blocks)} })
         : right \in {IF isEmptyLeaf(m, At(blocks, rightStart))
                      THEN ComputeEmptyLeavesSubTreeHash(m, rightEnd - rightStart + 1)
                      ELSE IF rightStart = start /\ rightEnd = end
                      THEN StackOverflow(m)
                      ELSE GenerateSMT(m, rightStart, rightEnd, blocks)} })

Generate_map(m, blocks) ==
    IF ~isPowerOfTwo(Len(blocks)) THEN Ret(m, InvalidSize, NoBytes)
    ELSE Only({
         IF root.panic THEN root
         ELSE IF root.err = ""
         THEN Ret([root.m EXCEPT !.tree.Root = root.val,
                                 !.tree.RootNode = MapGet(root.m.tree.Nodes,
                                                          Hex(root.val))],
                  "", NoBytes)
         ELSE Ret(root.m, root.err, NoBytes)
         : root \in {GenerateSMT(
                         [m EXCEPT !.tree.treeHeight = logBaseTwo(Len(blocks)) + 1],
                         0, Len(blocks) - 1, blocks)} })

GetRoot(m) == Ret(m, "", m.tree.Root)

NilDereference(m) == PanicWith(m, "panic: nil pointer dereference")

\* the methods of SMTNode; a call on the nil interface value panics
GetHash(m, node) ==
    CASE node.kind = "nil" -> NilDereference(m)
      [] node.kind = "NodeWithAllEmptyLeaf" ->
            IF ~InRange(m.tree.cachedAllLevelsHashOfEmptyLeaves, node.Index)
            THEN Panic(m)
            ELSE Ret(m, "", At(m.tree.cachedAllLevelsHashOfEmptyLeaves, node.Index))
      [] OTHER -> Ret(m, "", node.Hash)

GetLeftNode(m, node) ==
    CASE node.kind = "nil" -> NilDereference(m)
      [] node.kind = "LeafNode" -> Ret(m, "", Nil)
      [] node.kind = "NodeWithAllEmptyLeaf" ->
            IF ~InRange(m.tree.cachedAllLevelsHashHexOfEmptyLeaves, node.Index + 1)
            THEN Panic(m)
            ELSE Ret(m, "", MapGet(m.tree.Nodes,
                         At(m.tree.cachedAllLevelsHashHexOfEmptyLeaves, node.Index + 1)))
      [] OTHER -> Ret(m, "", MapGet(m.tree.Nodes, node.LeftChildHashHexString))

GetRightNode(m, node) ==
    CASE node.kind = "nil" -> NilDereference(m)
      [] node.kind = "LeafNode" -> Ret(m, "", Nil)
      [] node.kind = "NodeWithAllEmptyLeaf" -> GetLeftNode(m, node)
      [] OTHER -> Ret(m, "", MapGet(m.tree.Nodes, node.RightChildHashHexString))

\* one iteration of the loop of GetMerkelProof: val is <<the ProofNode, the next
\* parentNode>>; bit tells whether mask & leafNo > 0
proofStep_map(m, parentNode, bit) ==
    Only({
    IF sibling.panic THEN sibling
    ELSE Only({
         IF hash.panic THEN hash
         ELSE Only({
              IF next.panic THEN next
              ELSE Ret(m, "", <<[Hash |-> hash.val, Left |-> bit], next.val>>)
              : next \in {IF bit THEN GetRightNode(m, parentNode)
                          ELSE GetLeftNode(m, parentNode)} })
         : hash \in {GetHash(m, sibling.val)} })
    : sibling \in {IF bit THEN GetLeftNode(m, parentNode)
                   ELSE GetRightNode(m, parentNode)} })

RECURSIVE proofLoop_map(_, _, _, _, _)
proofLoop_map(m, parentNode, leafNo, i, proofs) ==
    IF ~(i > 0) THEN Ret(m, "", proofs)
    ELSE Only({
         IF step.panic THEN step
         ELSE proofLoop_map(m, step.val[2], leafNo, i - 1, <<step.val[1]>> \o proofs)
         : step \in {proofStep_map(m, parentNode,
                                   (leafNo \div Pow2(i - 1)) % 2 = 1)} })

\* i := self.treeHeight - 1 is unsigned: for treeHeight = 0 it wraps to
\* 2^64 - 1, the loop is entered, and mask = uint(1) << (2^64 - 2) is 0, so the
\* first iteration takes the branch of a 0 bit on RootNode.  RootNode is nil
\* whenever treeHeight is 0, so that iteration panics.
GetMerkelProof_map(m, leafNo) ==
    IF m.tree.treeHeight = 0
    THEN Only({
         IF step.panic THEN step
         ELSE PanicWith(m, "a loop of 2^64 - 1 iterations")
         : step \in {proofStep_map(m, m.tree.RootNode, FALSE)} })
    ELSE proofLoop_map(m, m.tree.RootNode, leafNo, m.tree.treeHeight - 1, <<>>)


----------------------------------------------------------------------------
(* The state machine of one array-of-levels SMT instance.                  *)

\* the blocks handed to Generate: n one-byte blocks, block i holding byte i
Leaves(n) == [i \in 1..n |-> << <<i>> >>]

NoCall == [op |-> "new", leaves |-> <<>>, totalSize |-> 0, leafNo |-> 0]
NoResult == [err |-> "", panic |-> FALSE, val |-> NoBytes, proof |-> <<>>]

NoBuilt == [leaves |-> <<>>, totalSize |-> 0]

NoBlockTree == [Nodes |-> <<>>]

Machine == [smt |-> smt, hashes |-> hashes]

\* NewSMTWithTwoHashFuncs(leafHash, nonLeafHash) on two fresh hash objects
NewSMTWithTwoHashFuncs(hs) ==
    LET e == emptyLeafHash(hs, "leaf") IN
    [smt |-> newSMT("leaf", "node", e.hash), hashes |-> e.hashes, err |-> e.err]

\* NewSMTWithNonLeafHashAndEmptyLeafHashValue(emptyLeafHash, nonLeafHash)
NewSMTWithNonLeafHashAndEmptyLeafHashValue(emptyHash, hs) ==
    [smt |-> newSMT("nil", "node", emptyHash), hashes |-> hs, err |-> ""]

\* the constructions the model starts from: either constructor, with one of
\* the hash objects wrapped in a decorator that fails from write failAt on
\* (failAt = 0: no decorator, the hash never fails)
Constructions(failAts) ==
    { NewSMTWithTwoHashFuncs([id \in {"leaf", "node"} |->
                                 NewHash(IF id = failing THEN failAt ELSE 0)]) :
          failing \in {"leaf", "node"}, failAt \in failAts }
    \cup
    { NewSMTWithNonLeafHashAndEmptyLeafHashValue(md5(NoBytes),
                                 [id \in {"node"} |-> NewHash(failAt)]) :
          failAt \in failAts }

InitWith(failAts) ==
    \E c \in Constructions(failAts) :
        /\ c.err = ""
        /\ smt = c.smt
        /\ hashes = c.hashes
        /\ blockTree = NoBlockTree
        /\ call = NoCall
        /\ result = NoResult
        /\ generateCalls = 0
        /\ generated = FALSE
        /\ built = NoBuilt

\* a tree over hash objects that never fail
Init == InitWith({0})

\* a tree one of whose hash objects fails from some write on
Init_failing == InitWith(1..MaxFailAt)

\* what a call returning a digest (or nothing) hands back
Returned(r) == [err |-> r.err, panic |-> r.panic, val |-> r.val, proof |-> <<>>]

\* what GetMerkelProof hands back: r.val is the proof
ReturnedProof(r) ==
    [err |-> r.err, panic |-> r.panic, val |-> NoBytes, proof |-> r.val]

GenerateCall ==
    \E n \in 0..MaxLeaves, totalSize \in 0..MaxTotalSize :
        /\ ~result.panic
        /\ generateCalls < MaxGenerate
        /\ \E r \in {Generate(Machine, Leaves(n), totalSize)} :
           /\ smt' = r.m.smt
           /\ hashes' = r.m.hashes
           /\ call' = [op |-> "Generate", leaves |-> Leaves(n),
                       totalSize |-> totalSize, leafNo |-> 0]
           /\ result' = Returned(r)
           /\ generateCalls' = generateCalls + 1
           /\ generated' = (generated \/ (~r.panic /\ r.err = ""))
           /\ built' = IF ~r.panic /\ r.err = ""
                       THEN [leaves |-> Leaves(n), totalSize |-> totalSize]
                       ELSE built
        /\ UNCHANGED blockTree

RootHashCall ==
    /\ ~result.panic
    /\ \E r \in {RootHash(Machine)} :
       /\ smt' = r.m.smt
       /\ hashes' = r.m.hashes
       /\ call' = [op |-> "RootHash", leaves |-> <<>>, totalSize |-> 0, leafNo |-> 0]
       /\ result' = Returned(r)
    /\ UNCHANGED <<blockTree, generateCalls, generated, built>>

GetMerkelProofCall ==
    \E leafNo \in 0..MaxLeafNo :
        /\ ~result.panic
        /\ \E r \in {GetMerkelProof(Machine, leafNo)} :
           /\ smt' = r.m.smt
           /\ hashes' = r.m.hashes
           /\ call' = [op |-> "GetMerkelProof", leaves |-> <<>>, totalSize |-> 0,
                       leafNo |-> leafNo]
           /\ result' = ReturnedProof(r)
        /\ UNCHANGED <<blockTree, generateCalls, generated, built>>

Next == GenerateCall \/ RootHashCall \/ GetMerkelProofCall

Spec == Init /\ [][Next]_vars

Spec_failing == Init_failing /\ [][Next]_vars

\* Generate of a few leaves in a tree of 2^WideHeight positions
GenerateCall_wide ==
    \E n \in 0..MaxWideLeaves :
        /\ ~result.panic
        /\ generateCalls < MaxGenerate
        /\ \E r \in {Generate(Machine, Leaves(n), Pow2(WideHeight))} :
           /\ smt' = r.m.smt
           /\ hashes' = r.m.hashes
           /\ call' = [op |-> "Generate", leaves |-> Leaves(n),
                       totalSize |-> Pow2(WideHeight), leafNo |-> 0]
           /\ result' = Returned(r)
           /\ generateCalls' = generateCalls + 1
           /\ generated' = (generated \/ (~r.panic /\ r.err = ""))
           /\ built' = IF ~r.panic /\ r.err = ""
                       THEN [leaves |-> Leaves(n), totalSize |-> Pow2(WideHeight)]
                       ELSE built
        /\ UNCHANGED blockTree

Next_wide == GenerateCall_wide \/ RootHashCall \/ GetMerkelProofCall

\* the same instance, used with a wide and mostly empty tree
Spec_wide == Init /\ [][Next_wide]_vars

----------------------------------------------------------------------------
(* Two array-of-levels SMT instances used side by side.  Here smt, call,   *)
(* result and built are functions of the instance, built[inst] is the      *)
(* machine the constructor of inst returned, and hashes is the store of    *)
(* all hash objects.  Generate runs one hash primitive (Write, Sum, Reset) *)
(* at a time, so that the primitives of the two instances interleave.      *)

Inst == {"a", "b"}

\* variant: both instances are handed the hash objects of instance a
backend_shared(inst, id) == <<"a", id>>

\* the hash object that field id (leafHash, nonLeafHash) of inst refers to
backend(inst, id) == <<inst, id>>

\* the machine inst works on: its struct and the hash objects it refers to
View(inst) ==
    [smt |-> smt[inst],
     hashes |-> [id \in DOMAIN built[inst].hashes |-> hashes[backend(inst, id)]]]

NoHashCall ==
    [obj |-> "", items |-> <<>>, k |-> 0, stage |-> "", hash |-> NoBytes,
     err |-> "", ret |-> ""]

\* the position of an instance before its Generate
NewProcess ==
    [pc |-> "new", op |-> "new", leaves |-> <<>>, totalSize |-> 0, leafNo |-> 0,
     phase |-> "", i |-> 0, lv |-> 0, levelsNo |-> 0, maxHeight |-> 0,
     lastLevelHash |-> NoBytes, lastLevelNodesHash |-> <<>>, hashes_ |-> <<>>,
     hc |-> NoHashCall, interleaved |-> FALSE]

\* leafHashFunc or parentHash entered: items are written to hash object obj,
\* ret is the place of the call
beginHash(st, obj, items, ret) ==
    [st EXCEPT !.p.pc = "hash",
               !.p.hc = [obj |-> obj, items |-> items, k |-> 0, stage |-> "write",
                         hash |-> NoBytes, err |-> "", ret |-> ret]]

\* Generate returns err, or ends in a panic
finish(st, err, panic) ==
    [st EXCEPT !.p.pc = "done", !.p.hc = NoHashCall, !.err = err, !.panic = panic]

\* Generate from the position st.p on, up to its next hash call or its return
RECURSIVE advance(_)
advance(st) ==
    LET p == st.p
        s == st.smt IN
    CASE p.phase = "computeEmptyLeavesSubTreeHash" ->
           IF p.i < p.maxHeight
           THEN beginHash(st, s.nonLeafHash, <<p.lastLevelHash, p.lastLevelHash>>,
                          "computeEmptyLeavesSubTreeHash")
           ELSE Only({ advance(x) : x \in {
                    [st EXCEPT !.p.phase = "buildLeavesNodes", !.p.i = 0,
                               !.p.hashes_ = <<>>]} })
      [] p.phase = "buildLeavesNodes" ->
           IF p.i < Len(p.leaves)
           THEN IF s.leafHash = "nil"
                THEN Only({ advance(x) : x \in {
                         [st EXCEPT !.p.i = @ + 1,
                                    !.p.hashes_ = Append(@, At(p.leaves, p.i))]} })
                ELSE beginHash(st, s.leafHash, <<At(p.leaves, p.i)>>,
                               "buildLeavesNodes")
           ELSE Only({ advance(x) : x \in {
                    [st EXCEPT !.p.phase = "buildAllLevelNodes",
                               !.p.lv = s.treeHeight,
                               !.smt.nodesWithoutEmptyLeavesSubTree =
                                   Append(@, p.hashes_)]} })
      [] p.phase = "buildAllLevelNodes" ->
           IF p.lv > 1
           THEN IF ~InRange(s.nodesWithoutEmptyLeavesSubTree,
                            s.treeHeight - 1 - (p.lv - 1))
                THEN finish(st, "panic: index out of range", TRUE)
                ELSE Only({ advance(x) : x \in {
                         [st EXCEPT !.p.phase = "pairs", !.p.levelsNo = p.lv - 1,
                                    !.p.lastLevelNodesHash =
                                        At(s.nodesWithoutEmptyLeavesSubTree,
                                           s.treeHeight - 1 - (p.lv - 1)),
                                    !.p.i = 0, !.p.hashes_ = <<>>]} })
           ELSE finish(st, "", FALSE)
      [] p.phase = "pairs" ->
           IF p.i < Len(p.lastLevelNodesHash) \div 2
           THEN beginHash(st, s.nonLeafHash,
                          <<At(p.lastLevelNodesHash, 2 * p.i),
                            At(p.lastLevelNodesHash, 2 * p.i + 1)>>, "pairs")
           ELSE IF Len(p.lastLevelNodesHash) % 2 # 0
           THEN IF ~InRange(s.levelsUpHashOfEmptyLeaves,
                            siblingEmptyTreeIndex(s.treeHeight, p.levelsNo))
                THEN finish(st, "panic: index out of range", TRUE)
                ELSE beginHash(st, s.nonLeafHash,
                               <<At(p.lastLevelNodesHash,
                                    Len(p.lastLevelNodesHash) - 1),
                                 At(s.levelsUpHashOfEmptyLeaves,
                                    siblingEmptyTreeIndex(s.treeHeight,
                                                          p.levelsNo))>>,
                               "odd")
           ELSE Only({ advance(x) : x \in {[st EXCEPT !.p.phase = "append"]} })
      [] p.phase = "append" ->
           Only({ advance(x) : x \in {
               [st EXCEPT !.p.phase = "buildAllLevelNodes", !.p.lv = @ - 1,
                          !.smt.nodesWithoutEmptyLeavesSubTree =
                              Append(@, p.hashes_)]} })

\* the hash call of st.p has returned (hash, err): the code after the call
deliver(st, hash, err) ==
    IF err # "" THEN finish(st, err, FALSE)
    ELSE Only({ advance(x) : x \in {
         CASE st.p.hc.ret = "computeEmptyLeavesSubTreeHash" ->
                [st EXCEPT !.p.lastLevelHash = hash, !.p.i = @ + 1,
                           !.smt.levelsUpHashOfEmptyLeaves = Append(@, hash)]
           [] st.p.hc.ret = "buildLeavesNodes" ->
                [st EXCEPT !.p.hashes_ = Append(@, hash), !.p.i = @ + 1]
           [] st.p.hc.ret = "pairs" ->
                [st EXCEPT !.p.hashes_ = Append(@, hash), !.p.i = @ + 1]
           [] st.p.hc.ret = "odd" ->
                [st EXCEPT !.p.hashes_ = Append(@, hash), !.p.phase = "append"]} })

\* the other instance
Other(inst) == CHOOSE o \in Inst : o # inst

\* inst takes a hash step while the other instance is inside a hash call
Overlaps(inst) == call[inst].interleaved \/ call[Other(inst)].pc = "hash"

\* the state instance inst is left in by st
Put(inst, st) ==
    /\ smt' = [smt EXCEPT ![inst] = st.smt]
    /\ call' = [call EXCEPT ![inst] = st.p]
    /\ result' = [result EXCEPT ![inst] =
                     IF st.p.pc = "done"
                     THEN [err |-> st.err, panic |-> st.panic, val |-> NoBytes,
                           proof |-> <<>>]
                     ELSE @]

NoPanic == \A inst \in Inst : ~result[inst].panic

\* Generate is called on inst and runs up to its first hash call
GenerateBegin(inst) ==
    \E n \in 0..MaxTwoLeaves, totalSize \in 0..MaxTwoTotal :
        /\ NoPanic
        /\ call[inst].pc = "new"
        /\ \E st \in {
               IF generateCheck(n, totalSize) # ""
               THEN finish([p |-> [call[inst] EXCEPT !.op = "Generate",
                                       !.leaves = Leaves(n),
                                       !.totalSize = totalSize],
                            smt |-> smt[inst], err |-> "", panic |-> FALSE],
                           generateCheck(n, totalSize), FALSE)
               ELSE advance(
                      [p |-> [call[inst] EXCEPT !.op = "Generate",
                                  !.leaves = Leaves(n), !.totalSize = totalSize,
                                  !.phase = "computeEmptyLeavesSubTreeHash",
                                  !.i = 1,
                                  !.lastLevelHash = smt[inst].emptyLeafHash,
                                  !.maxHeight = maxEmtySubTreeHeight(totalSize, n)],
                       smt |-> [smt[inst] EXCEPT
                                  !.treeHeight = logBaseTwo(totalSize) + 1,
                                  !.noOfNonEmptyLeaves = n],
                       err |-> "", panic |-> FALSE]) } :
               Put(inst, st)
        /\ UNCHANGED <<hashes, blockTree, generateCalls, generated, built>>

\* hash.Write of the next item of the hash call inst is in
HashWrite(inst) ==
    /\ NoPanic
    /\ call[inst].pc = "hash" /\ call[inst].hc.stage = "write"
    /\ \E w \in {Write(hashes[backend(inst, call[inst].hc.obj)],
                       At(call[inst].hc.items, call[inst].hc.k))} :
       /\ hashes' = [hashes EXCEPT ![backend(inst, call[inst].hc.obj)] = w.h]
       /\ call' = [call EXCEPT
              ![inst].interleaved = Overlaps(inst),
              ![inst].hc.err = w.err,
              ![inst].hc.k = @ + 1,
              ![inst].hc.stage =
                  IF w.err # "" THEN "reset"
                  ELSE IF call[inst].hc.k + 1 = Len(call[inst].hc.items)
                  THEN "sum" ELSE "write"]
    /\ UNCHANGED <<smt, result, blockTree, generateCalls, generated, built>>

\* hash.Sum(nil) of the hash call inst is in
HashSum(inst) ==
    /\ NoPanic
    /\ call[inst].pc = "hash" /\ call[inst].hc.stage = "sum"
    /\ \E s \in {Sum(hashes[backend(inst, call[inst].hc.obj)])} :
       /\ hashes' = [hashes EXCEPT ![backend(inst, call[inst].hc.obj)] = s.h]
       /\ call' = [call EXCEPT ![inst].interleaved = Overlaps(inst),
                               ![inst].hc.hash = s.hash,
                               ![inst].hc.stage = "reset"]
    /\ UNCHANGED <<smt, result, blockTree, generateCalls, generated, built>>

\* the deferred hash.Reset of the hash call inst is in, and the code of
\* Generate from the return of that call up to the next hash call
HashReset(inst) ==
    /\ NoPanic
    /\ call[inst].pc = "hash" /\ call[inst].hc.stage = "reset"
    /\ hashes' = [hashes EXCEPT ![backend(inst, call[inst].hc.obj)] = Reset(@)]
    /\ \E st \in {deliver([p |-> [call[inst] EXCEPT
                                     !.interleaved = Overlaps(inst)],
                           smt |-> smt[inst], err |-> "", panic |-> FALSE],
                          call[inst].hc.hash, call[inst].hc.err)} :
           Put(inst, st)
    /\ UNCHANGED <<blockTree, generateCalls, generated, built>>

\* RootHash on an instance whose Generate has returned
RootHashCall_two(inst) ==
    /\ NoPanic
    /\ call[inst].pc = "done"
    /\ \E r \in {RootHash(View(inst))} :
       /\ call' = [call EXCEPT ![inst].op = "RootHash", ![inst].leafNo = 0]
       /\ result' = [result EXCEPT ![inst] = Returned(r)]
    /\ UNCHANGED <<smt, hashes, blockTree, generateCalls, generated, built>>

\* GetMerkelProof on an instance whose Generate has returned
GetMerkelProofCall_two(inst) ==
    \E leafNo \in 0..MaxTwoLeafNo :
        /\ NoPanic
        /\ call[inst].pc = "done"
        /\ \E r \in {GetMerkelProof(View(inst), leafNo)} :
           /\ call' = [call EXCEPT ![inst].op = "GetMerkelProof",
                                   ![inst].leafNo = leafNo]
           /\ result' = [result EXCEPT ![inst] = ReturnedProof(r)]
        /\ UNCHANGED <<smt, hashes, blockTree, generateCalls, generated, built>>

\* two instances, each constructed over hash objects of its own
Init_two ==
    \E c \in [Inst -> Constructions({0})] :
        /\ smt = [inst \in Inst |-> c[inst].smt]
        /\ built = [inst \in Inst |-> [smt |-> c[inst].smt, hashes |-> c[inst].hashes]]
        /\ hashes = [key \in { backend(inst, id) :
                                   inst \in Inst, id \in {"leaf", "node"} }
                     |-> LET owner == CHOOSE x \in Inst \X {"leaf", "node"} :
                                          backend(x[1], x[2]) = key
                         IN IF owner[2] \in DOMAIN c[owner[1]].hashes
                            THEN c[owner[1]].hashes[owner[2]]
                            ELSE NewHash(0)]
        /\ call = [inst \in Inst |-> NewProcess]
        /\ result = [inst \in Inst |-> NoResult]
        /\ blockTree = NoBlockTree
        /\ generateCalls = 0
        /\ generated = FALSE

Next_two ==
    \E inst \in Inst :
        \/ GenerateBegin(inst)
        \/ HashWrite(inst)
        \/ HashSum(inst)
        \/ HashReset(inst)
        \/ RootHashCall_two(inst)
        \/ GetMerkelProofCall_two(inst)

Spec_two == Init_two /\ [][Next_two]_vars

----------------------------------------------------------------------------
(* The hash helpers of the array-of-levels SMT called one by one, on       *)
(* arguments of several lengths, over hash objects that may fail.          *)

\* byte strings and digests handed to the helpers
Items ==
    { NoBytes, << <<1>> >>, << <<2>> >>, << <<1>>, <<1>> >>,
      md5(NoBytes), md5(<< <<1>> >>) }

\* NewSMTWithTwoHashFuncs(hash, hash): one hash object in both roles
NewSMTWithOneHashFunc(hs) ==
    LET e == emptyLeafHash(hs, "node") IN
    [smt |-> newSMT("node", "node", e.hash), hashes |-> e.hashes, err |-> e.err]

Init_hash ==
    \E c \in Constructions(0..MaxFailAt)
             \cup { NewSMTWithOneHashFunc([id \in {"node"} |-> NewHash(failAt)]) :
                        failAt \in 0..MaxFailAt } :
        /\ c.err = ""
        /\ smt = c.smt
        /\ hashes = c.hashes
        /\ blockTree = NoBlockTree
        /\ call = NoCall
        /\ result = NoResult
        /\ generateCalls = 0
        /\ generated = FALSE
        /\ built = NoBuilt

WithinWrites == \A id \in DOMAIN hashes : hashes[id].writes < MaxWrites

ParentHashCall ==
    \E item1 \in Items, item2 \in Items :
        /\ WithinWrites
        /\ \E r \in {parentHash(Machine, item1, item2)} :
           /\ hashes' = r.m.hashes
           /\ call' = [op |-> "parentHash", leaves |-> <<item1, item2>>,
                       totalSize |-> 0, leafNo |-> 0]
           /\ result' = Returned(r)
        /\ UNCHANGED <<smt, blockTree, generateCalls, generated, built>>

LeafHashFuncCall ==
    \E leaf \in Items :
        /\ WithinWrites
        /\ \E r \in {leafHashFunc(Machine, leaf)} :
           /\ hashes' = r.m.hashes
           /\ call' = [op |-> "leafHashFunc", leaves |-> <<leaf>>,
                       totalSize |-> 0, leafNo |-> 0]
           /\ result' = Returned(r)
        /\ UNCHANGED <<smt, blockTree, generateCalls, generated, built>>

\* emptyLeafHash(h) on a hash object of the instance, as a later constructor
\* over the same object calls it
EmptyLeafHashCall ==
    \E id \in DOMAIN hashes :
        /\ WithinWrites
        /\ \E e \in {emptyLeafHash(hashes, id)} :
           /\ hashes' = e.hashes
           /\ call' = [op |-> "emptyLeafHash", leaves |-> <<>>,
                       totalSize |-> 0, leafNo |-> 0]
           /\ result' = [err |-> e.err, panic |-> FALSE, val |-> e.hash,
                         proof |-> <<>>]
        /\ UNCHANGED <<smt, blockTree, generateCalls, generated, built>>

Next_hash == ParentHashCall \/ LeafHashFuncCall \/ EmptyLeafHashCall

Spec_hash == Init_hash /\ [][Next_hash]_vars

----------------------------------------------------------------------------
(* The state machine of one map-of-nodes SMT instance of smt.go.           *)

MapMachine == [tree |-> blockTree, hashes |-> hashes]

NewSMTWithTwoHashFuncs_map(hs) ==
    LET e == emptyLeafHash(hs, "leaf") IN
    [tree |-> newSMT_map("leaf", "node", e.hash), hashes |-> e.hashes, err |-> e.err]

NewSMTWithNonLeafHashAndEmptyLeafHashValue_map(emptyHash, hs) ==
    [tree |-> newSMT_map("nil", "node", emptyHash), hashes |-> hs, err |-> ""]

Constructions_map ==
    { NewSMTWithTwoHashFuncs_map([id \in {"leaf", "node"} |->
                                 NewHash(IF id = failing THEN failAt ELSE 0)]) :
          failing \in {"leaf", "node"}, failAt \in 0..MaxFailAt }
    \cup
    { NewSMTWithNonLeafHashAndEmptyLeafHashValue_map(md5(NoBytes),
                                 [id \in {"node"} |-> NewHash(failAt)]) :
          failAt \in 0..MaxFailAt }

\* the block that the tree takes for an empty leaf
EmptyBlock == IF blockTree.LeafHash = "nil" THEN blockTree.EmptyLeafHash ELSE NoBytes

\* the block arrays handed to Generate: up to MaxBlocks blocks, block i being
\* the one-byte block holding byte i or, at the positions of empties, empty
Blocks(len, empties) ==
    [i \in 1..len |-> IF i \in empties THEN EmptyBlock ELSE << <<i>> >>]

NoSMT == [treeHeight |-> 0]

Init_map ==
    \E c \in Constructions_map :
        /\ c.err = ""
        /\ blockTree = c.tree
        /\ hashes = c.hashes
        /\ smt = NoSMT
        /\ call = NoCall
        /\ result = NoResult
        /\ generateCalls = 0
        /\ generated = FALSE
        /\ built = NoBuilt

GenerateCall_map ==
    \E len \in 0..MaxBlocks :
      \E empties \in SUBSET (1..len) :
        /\ ~result.panic
        /\ generateCalls < MaxGenerate
        /\ \E r \in {Generate_map(MapMachine, Blocks(len, empties))} :
           /\ blockTree' = r.m.tree
           /\ hashes' = r.m.hashes
           /\ call' = [op |-> "Generate", leaves |-> Blocks(len, empties),
                       totalSize |-> len, leafNo |-> 0]
           /\ result' = Returned(r)
           /\ generateCalls' = generateCalls + 1
           /\ generated' = (generated \/ (~r.panic /\ r.err = ""))
           /\ built' = IF ~r.panic /\ r.err = ""
                       THEN [leaves |-> Blocks(len, empties), totalSize |-> len]
                       ELSE built
        /\ UNCHANGED smt

GetRootCall ==
    /\ ~result.panic
    /\ \E r \in {GetRoot(MapMachine)} :
       /\ blockTree' = r.m.tree
       /\ hashes' = r.m.hashes
       /\ call' = [op |-> "GetRoot", leaves |-> <<>>, totalSize |-> 0, leafNo |-> 0]
       /\ result' = Returned(r)
    /\ UNCHANGED <<smt, generateCalls, generated, built>>

GetMerkelProofCall_map ==
    \E leafNo \in 0..MaxLeafNo :
        /\ ~result.panic
        /\ \E r \in {GetMerkelProof_map(MapMachine, leafNo)} :
           /\ blockTree' = r.m.tree
           /\ hashes' = r.m.hashes
           /\ call' = [op |-> "GetMerkelProof", leaves |-> <<>>, totalSize |-> 0,
                       leafNo |-> leafNo]
           /\ result' = ReturnedProof(r)
        /\ UNCHANGED <<smt, generateCalls, generated, built>>

Next_map == GenerateCall_map \/ GetRootCall \/ GetMerkelProofCall_map

Spec_map == Init_map /\ [][Next_map]_vars

----------------------------------------------------------------------------
(* The standard (unbalanced) Tree of merkle.go.  The machine is            *)
(* m = [tree |-> the struct, hashes |-> the hash objects].  tree.nodes is  *)
(* the linear array of nodes (<<>> for nil), a slice of it is the window   *)
(* [off, len], and a *Node is the index of the node in tree.nodes, -1 for  *)
(* nil.                                                                    *)

\* the nil slice; as a byte string it is empty
NilBytes == << <<"nil", 0, 0>> >>
IsNil(b) == b = NilBytes
Bytes(b) == IF IsNil(b) THEN NoBytes ELSE b

\* Node{}: no hash, no children
NoNode == [Hash |-> NilBytes, Left |-> -1, Right |-> -1]

NewTreeWithHashSortingEnable(hashFunc) ==
    [nodes |-> <<>>, levels |-> <<>>, enableHashSorting |-> TRUE,
     hashFunc |-> hashFunc]

NewTree(hashFunc) ==
    [nodes |-> <<>>, levels |-> <<>>, enableHashSorting |-> FALSE,
     hashFunc |-> hashFunc]

\* n--, the bits below the highest one set, n++
nextPowerOfTwo(n) == IF n = 0 THEN 1 ELSE Pow2(shiftCount(n - 1))

calculateTreeHeight(nodeCount) ==
    IF nodeCount = 0 THEN 0 ELSE logBaseTwo(nextPowerOfTwo(nodeCount)) + 1

\* the loop of calculateNodeCount, from i on
RECURSIVE nodeCountLoop(_, _, _, _)
nodeCountLoop(count, prev, i, height) ==
    IF ~(i < height) THEN count
    ELSE nodeCountLoop(count + (prev + (prev % 2)) \div 2,
                       (prev + (prev % 2)) \div 2, i + 1, height)

calculateNodeCount(height, size) ==
    IF isPowerOfTwo(size) THEN 2 * size - 1
    ELSE nodeCountLoop(size, size, 1, height)

\* the bytes two items are compared by: a raw byte is itself; the bytes of a
\* digest are not modelled, digests are ordered by the input they stand for
RECURSIVE CompareKey(_)
CompareKey(item) ==
    IF item = <<>> THEN <<>>
    ELSE (CASE Len(Head(item)) = 1 -> <<Head(item)[1]>>
            [] Len(Head(item)) = 2 -> <<256>> \o CompareKey(Head(item)[2]) \o <<257>>
            [] Len(Head(item)) = 3 -> <<>>)
         \o CompareKey(Tail(item))

\* lexicographic comparison, a proper prefix first: -1, 0 or 1
RECURSIVE CompareKeys(_, _)
CompareKeys(a, b) ==
    IF a = <<>> THEN (IF b = <<>> THEN 0 ELSE -1)
    ELSE IF b = <<>> THEN 1
    ELSE IF Head(a) < Head(b) THEN -1
    ELSE IF Head(a) > Head(b) THEN 1
    ELSE CompareKeys(Tail(a), Tail(b))

\* bytes.Compare
Compare(a, b) == CompareKeys(CompareKey(a), CompareKey(b))

\* val is the Node
NewNode(m, h, block) ==
    IF h = "nil" THEN Ret(m, "", [NoNode EXCEPT !.Hash = block])
    ELSE IF IsNil(block) THEN Ret(m, "", NoNode)
    ELSE Only({
         IF w.err # ""
         THEN Ret([m EXCEPT !.hashes[h] = Reset(w.h)], w.err, NoNode)
         ELSE Only({ Ret([m EXCEPT !.hashes[h] = Reset(s.h)], "",
                         [NoNode EXCEPT !.Hash = s.hash])
                     : s \in {Sum(w.h)} })
         : w \in {Write(m.hashes[h], block)} })

\* variant: the hashes are never sorted
generateNodeData_unsorted(enableHashSorting, left, right) ==
    Bytes(left) \o Bytes(right)

\* data of generateNode: the two hashes one after the other
generateNodeData(enableHashSorting, left, right) ==
    IF enableHashSorting /\ Compare(left, right) > 0
    THEN Bytes(right) \o Bytes(left)
    ELSE Bytes(left) \o Bytes(right)

generateNode(m, left, right) ==
    IF IsNil(right) THEN Ret(m, "", [NoNode EXCEPT !.Hash = Bytes(left)])
    ELSE NewNode(m, m.tree.hashFunc,
                 generateNodeData(m.tree.enableHashSorting, left, right))

\* the loop of generateNodeLevel, from i on; below is a window of nodes,
\* current starts at index cur of nodes; val is nodes as written so far
RECURSIVE nodeLevelLoop(_, _, _, _, _, _)
nodeLevelLoop(m, nodes, below, cur, i, end) ==
    IF ~(i < end) THEN Ret(m, "", nodes)
    ELSE IF ~InRange(nodes, below.off + 2 * i) \/ ~(2 * i < below.len)
    THEN Panic(m)
    ELSE Only({
         IF node.err # "" THEN Ret(node.m, node.err, nodes)
         ELSE IF ~InRange(nodes, cur + i) THEN Panic(node.m)
         ELSE nodeLevelLoop(node.m,
                  [nodes EXCEPT ![cur + i + 1] =
                      [node.val EXCEPT
                          !.Left = below.off + 2 * i,
                          !.Right = IF below.len > 2 * i + 1
                                    THEN below.off + 2 * i + 1 ELSE -1]],
                  below, cur, i + 1, end)
         : node \in {generateNode(m, At(nodes, below.off + 2 * i).Hash,
                                  IF below.len > 2 * i + 1
                                  THEN At(nodes, below.off + 2 * i + 1).Hash
                                  ELSE NilBytes)} })

\* val is [nodes |-> nodes as written, wrote |-> the number of nodes added]
generateNodeLevel(m, nodes, below, cur) ==
    Only({
    IF r.panic THEN r
    ELSE IF r.err # "" THEN Ret(r.m, r.err, [nodes |-> r.val, wrote |-> 0])
    ELSE Ret(r.m, "", [nodes |-> r.val,
                       wrote |-> (below.len + (below.len % 2)) \div 2])
    : r \in {nodeLevelLoop(m, nodes, below, cur, 0,
                           (below.len + (below.len % 2)) \div 2)} })

\* the level loop of generate, from h down; current starts at index cur
RECURSIVE levelsLoop(_, _, _, _, _)
levelsLoop(m, nodes, levels, cur, h) ==
    IF ~(h > 0)
    THEN Ret([m EXCEPT !.tree.nodes = nodes, !.tree.levels = levels], "", NoBytes)
    ELSE Only({
         IF r.panic THEN r
         ELSE IF r.err # "" THEN Ret(r.m, r.err, NoBytes)
         ELSE levelsLoop(r.m, r.val.nodes,
                         [levels EXCEPT ![h] = [off |-> cur, len |-> r.val.wrote]],
                         cur + r.val.wrote, h - 1)
         : r \in {generateNodeLevel(m, nodes, At(levels, h), cur)} })

generate(m, blocks) ==
    IF Len(blocks) = 0 THEN Ret(m, "Empty tree", NoBytes)
    ELSE LET height == calculateTreeHeight(Len(blocks))
             nodeCount == calculateNodeCount(height, Len(blocks)) IN
         IF nodeCount < Len(blocks) THEN Panic(m)
         ELSE levelsLoop(m,
                  [i \in 1..nodeCount |->
                      IF i <= Len(blocks) THEN [NoNode EXCEPT !.Hash = blocks[i]]
                      ELSE NoNode],
                  [h \in 1..height |->
                      IF h = height THEN [off |-> 0, len |-> Len(blocks)]
                      ELSE [off |-> 0, len |-> 0]],
                  Len(blocks), height - 1)

Generate_tree(m, blocks, totalLeavesSize) == generate(m, blocks)

\* the window of the leaf nodes
leaves_tree(tree) ==
    IF tree.levels = <<>> THEN [off |-> 0, len |-> 0]
    ELSE At(tree.levels, Len(tree.levels) - 1)

RootHash_tree(m) ==
    IF m.tree.nodes = <<>> THEN Ret(m, "", NilBytes)
    ELSE IF ~InRange(m.tree.levels, 0) THEN Panic(m)
    ELSE IF ~(At(m.tree.levels, 0).len > 0)
            \/ ~InRange(m.tree.nodes, At(m.tree.levels, 0).off)
    THEN Panic(m)
    ELSE Ret(m, "", At(m.tree.nodes, At(m.tree.levels, 0).off).Hash)

\* the sibling's position in the level: after an even index, before an odd one
proofSibling(leafIndex) == IF leafIndex % 2 = 0 THEN leafIndex + 1 ELSE leafIndex - 1

\* the level loop of GetMerkleProof, from level down
RECURSIVE merkleProofLoop(_, _, _, _, _, _)
merkleProofLoop(m, leafIndex, lastNodeInLevel, offset, level, nodes_) ==
    IF ~(level > 0) THEN Ret(m, "", nodes_)
    ELSE IF ~(leafIndex = lastNodeInLevel /\ (lastNodeInLevel + 1) % 2 = 1)
    THEN IF ~InRange(m.tree.nodes, offset + proofSibling(leafIndex))
         THEN Panic(m)
         ELSE merkleProofLoop(m, leafIndex \div 2,
                  ((lastNodeInLevel + 1) \div 2) + ((lastNodeInLevel + 1) % 2) - 1,
                  offset + lastNodeInLevel + 1, level - 1,
                  Append(nodes_,
                         [Hash |-> At(m.tree.nodes,
                                      offset + proofSibling(leafIndex)).Hash,
                          Left |-> (leafIndex % 2 # 0)]))
    ELSE merkleProofLoop(m, leafIndex \div 2,
             ((lastNodeInLevel + 1) \div 2) + ((lastNodeInLevel + 1) % 2) - 1,
             offset + lastNodeInLevel + 1, level - 1, nodes_)

GetMerkleProof(m, leafIndex) ==
    LET leafCount == leaves_tree(m.tree).len IN
    IF leafCount = 0 THEN Ret(m, "SMT tree is not filled", <<>>)
    ELSE IF leafIndex >= leafCount
    THEN Ret(m, "node index is too big for node count", <<>>)
    ELSE merkleProofLoop(m, leafIndex, leafCount - 1, 0,
                         calculateTreeHeight(leafCount) - 1, <<>>)

(* The state machine of the standard Tree: a tree is built by NewTree or   *)
(* NewTreeWithHashSortingEnable over a hash function that never fails,     *)
(* Generate is called once, then RootHash and GetMerkleProof in any order. *)
(* blockTree holds the Tree struct.                                        *)

TreeMachine == [tree |-> blockTree, hashes |-> hashes]

\* the blocks handed to Generate: the nil slice, the empty block and two
\* one-byte blocks
TreeItems == { NilBytes, NoBytes, << <<1>> >>, << <<2>> >> }

TreeBlocks == UNION { [1..n -> TreeItems] : n \in 0..MaxTreeBlocks }

Init_tree ==
    /\ blockTree \in {NewTree("node"), NewTreeWithHashSortingEnable("node")}
    /\ hashes = [id \in {"node"} |-> NewHash(0)]
    /\ smt = NoSMT
    /\ call = NoCall
    /\ result = NoResult
    /\ generateCalls = 0
    /\ generated = FALSE
    /\ built = NoBuilt

GenerateCall_tree ==
    \E blocks \in TreeBlocks :
        /\ generateCalls = 0
        /\ \E r \in {Generate_tree(TreeMachine, blocks, 0)} :
           /\ blockTree' = r.m.tree
           /\ hashes' = r.m.hashes
           /\ call' = [op |-> "Generate", leaves |-> blocks, totalSize |-> 0,
                       leafNo |-> 0]
           /\ result' = Returned(r)
           /\ generateCalls' = generateCalls + 1
           /\ generated' = (~r.panic /\ r.err = "")
           /\ built' = IF ~r.panic /\ r.err = ""
                       THEN [leaves |-> blocks, totalSize |-> Len(blocks)]
                       ELSE built
        /\ UNCHANGED smt

RootHashCall_tree ==
    /\ ~result.panic
    /\ \E r \in {RootHash_tree(TreeMachine)} :
       /\ blockTree' = r.m.tree
       /\ hashes' = r.m.hashes
       /\ call' = [op |-> "RootHash", leaves |-> <<>>, totalSize |-> 0, leafNo |-> 0]
       /\ result' = Returned(r)
    /\ UNCHANGED <<smt, generateCalls, generated, built>>

GetMerkleProofCall_tree ==
    \E leafIndex \in 0..MaxLeafIndex :
        /\ ~result.panic
        /\ \E r \in {GetMerkleProof(TreeMachine, leafIndex)} :
           /\ blockTree' = r.m.tree
           /\ hashes' = r.m.hashes
           /\ call' = [op |-> "GetMerkleProof", leaves |-> <<>>, totalSize |-> 0,
                       leafNo |-> leafIndex]
           /\ result' = ReturnedProof(r)
        /\ UNCHANGED <<smt, generateCalls, generated, built>>

Next_tree == GenerateCall_tree \/ RootHashCall_tree \/ GetMerkleProofCall_tree

Spec_tree == Init_tree /\ [][Next_tree]_vars

----------------------------------------------------------------------------
(* The reference notions the claims are stated with: the hash operations   *)
(* as functions of their arguments, the empty-subtree digests and the      *)
(* fully materialized tree.                                                *)

PowerOfTwo(n) == \E k \in 0..n : Pow2(k) = n
Log2(n) == CHOOSE k \in 0..n : Pow2(k) = n

LeafDigest(block) == IF smt.leafHash = "nil" THEN block ELSE md5(block)
ParentDigest(left, right) == md5(left \o right)
EmptyLeafDigest == IF smt.leafHash = "nil" THEN smt.emptyLeafHash ELSE md5(NoBytes)

\* the digest of a subtree of 2^i empty leaves
RECURSIVE EmptyChain(_)
EmptyChain(i) ==
    IF i = 0 THEN EmptyLeafDigest
    ELSE ParentDigest(EmptyChain(i - 1), EmptyChain(i - 1))

\* the digest of position i (from 0) of the leaf level
PositionDigest(leaves, i) ==
    IF i < Len(leaves) THEN LeafDigest(At(leaves, i)) ELSE EmptyLeafDigest

\* node i (from 0) at height j of the fully materialized tree over leaves
RECURSIVE DenseNode(_, _, _)
DenseNode(leaves, j, i) ==
    IF j = 0 THEN PositionDigest(leaves, i)
    ELSE ParentDigest(DenseNode(leaves, j - 1, 2 * i),
                      DenseNode(leaves, j - 1, 2 * i + 1))

DenseRoot(leaves, totalSize) == DenseNode(leaves, Log2(totalSize), 0)

\* the verifier's fold of a proof, bottom-up, from the running digest
RECURSIVE FoldProof(_, _)
FoldProof(running, proof) ==
    IF proof = <<>> THEN running
    ELSE FoldProof(IF Head(proof).Left
                   THEN ParentDigest(Head(proof).Hash, running)
                   ELSE ParentDigest(running, Head(proof).Hash),
                   Tail(proof))

Succeeded == ~result.panic /\ result.err = ""
Failed == ~result.panic /\ result.err # ""

\* the instance has seen exactly one Generate call, and it returned nil
BuiltOnce == generated /\ generateCalls = 1

\* the last call was the first Generate call on the instance
FirstGenerate == call.op = "Generate" /\ generateCalls = 1

\* no hash object of the instance is set to fail
NoFailingHash == \A id \in DOMAIN hashes : hashes[id].failAt = 0

TotalHashes ==
    LET RECURSIVE total(_)
        total(i) == IF i = 0 THEN 0
                    ELSE Len(smt.nodesWithoutEmptyLeavesSubTree[i]) + total(i - 1)
    IN total(Len(smt.nodesWithoutEmptyLeavesSubTree))

----------------------------------------------------------------------------
(* The claims. *)

\* some Write call on a hash object of the instance has returned an error
WriteFailed ==
    \E id \in DOMAIN hashes :
        hashes[id].failAt > 0 /\ hashes[id].writes >= hashes[id].failAt

\* C1: after a successful Generate, for every leafNo below totalSize (real
\* and empty positions alike) GetMerkelProof returns a proof whose fold from
\* the position's leaf digest is RootHash().
ProofRoundTrip ==
    (BuiltOnce /\ call.op = "GetMerkelProof" /\ call.leafNo < built.totalSize)
    => /\ Succeeded
       /\ ~RootHash(Machine).panic
       /\ FoldProof(PositionDigest(built.leaves, call.leafNo), result.proof)
              = RootHash(Machine).val

\* the proof of the only real leaf of a two-leaf tree indexes past the end of
\* levelsUpHashOfEmptyLeaves
ProofPanicsOnRealLeaf ==
    /\ BuiltOnce /\ Len(built.leaves) = 1 /\ built.totalSize = 2
    /\ call.op = "GetMerkelProof" /\ call.leafNo = 0
    /\ result.panic

\* C2: the root after Generate is the root of the fully materialized tree over
\* the leaf digests followed by empty-leaf digests.
SparseRootIsDenseRoot ==
    (FirstGenerate /\ Succeeded)
    => /\ ~RootHash(Machine).panic
       /\ RootHash(Machine).val = DenseRoot(call.leaves, call.totalSize)

SparseRootWitness ==
    /\ FirstGenerate /\ Succeeded
    /\ Len(call.leaves) = 3 /\ call.totalSize = 8
    /\ RootHash(Machine).val = DenseRoot(call.leaves, call.totalSize)

\* C3: with zero leaves and totalSize = 2^k, Generate succeeds when no hash
\* fails, and then the root is EmptyChain[k], parentHash ran exactly k times
\* and no level holds a digest.
EmptyTreeLaw ==
    (FirstGenerate /\ Len(call.leaves) = 0 /\ PowerOfTwo(call.totalSize))
    => /\ NoFailingHash => Succeeded
       /\ Succeeded =>
              /\ RootHash(Machine).val = EmptyChain(Log2(call.totalSize))
              /\ hashes["node"].sums = Log2(call.totalSize)
              /\ TotalHashes = 0

EmptyTreeWitness ==
    /\ FirstGenerate /\ Succeeded
    /\ Len(call.leaves) = 0 /\ call.totalSize = 8
    /\ hashes["node"].sums = 3

\* C4: Generate returns the size error whenever totalSize is no power of two,
\* also when there are more leaves than totalSize.
InvalidSizeFirst ==
    (call.op = "Generate" /\ ~PowerOfTwo(call.totalSize))
    => (~result.panic /\ result.err = InvalidSize)

InvalidSizeWitness ==
    /\ call.op = "Generate" /\ call.totalSize = 6 /\ Len(call.leaves) = 9
    /\ result.err = InvalidSize

\* C5: with totalSize a power of two, Generate returns the overflow error
\* when there are more leaves than totalSize, and passes its argument checks
\* when there are exactly totalSize leaves.
LeafOverflowRule ==
    (call.op = "Generate" /\ PowerOfTwo(call.totalSize))
    => /\ Len(call.leaves) > call.totalSize
              => (~result.panic /\ result.err = LeafOverflow)
       /\ Len(call.leaves) = call.totalSize
              => /\ result.err \notin {LeafOverflow, InvalidSize}
                 /\ (FirstGenerate /\ NoFailingHash) => Succeeded

LeafOverflowWitness ==
    /\ call.op = "Generate" /\ call.totalSize = 8 /\ Len(call.leaves) = 9
    /\ result.err = LeafOverflow

\* C6: while no Generate call has succeeded, RootHash and GetMerkelProof
\* return an error, and neither returns a value nor panics.
NotFilledBeforeGenerate ==
    (~generated /\ generateCalls = 0 /\ call.op \in {"RootHash", "GetMerkelProof"})
    => Failed

\* RootHash on a freshly constructed tree returns the empty-leaf digest
RootHashOnFreshTree ==
    /\ generateCalls = 0 /\ call.op = "RootHash"
    /\ Succeeded /\ result.val = smt.emptyLeafHash

\* C7: on a built tree GetMerkelProof returns an error for every leafNo from
\* totalSize on and a proof for every leafNo below it.
ProofIndexRange ==
    (BuiltOnce /\ call.op = "GetMerkelProof")
    => /\ call.leafNo >= built.totalSize => Failed
       /\ call.leafNo < built.totalSize => Succeeded

\* a leafNo from totalSize on is answered with a proof
ProofBeyondTotalSize ==
    /\ BuiltOnce /\ call.op = "GetMerkelProof"
    /\ call.leafNo >= built.totalSize
    /\ Succeeded

\* C8: a Generate call during which a write to a hash object fails returns
\* an error.
HashFailureReturned ==
    (FirstGenerate /\ WriteFailed) => Failed

\* Generate of the map-of-nodes tree returns nil after a failed write, with an
\* empty Root
SwallowedWriteFailure ==
    /\ FirstGenerate /\ WriteFailed
    /\ Succeeded /\ blockTree.Root = NoBytes

\* C9: after a Generate call that returned an error, RootHash and
\* GetMerkelProof still return the not-filled error.
FailedGenerateLeavesUnfilled ==
    (~generated /\ generateCalls > 0 /\ call.op \in {"RootHash", "GetMerkelProof"})
    => Failed

\* after a Generate call cut short by a failed write, RootHash returns the
\* last digest of the partly extended empty chain
PartialBuildObservable ==
    /\ ~generated /\ generateCalls = 1 /\ WriteFailed
    /\ call.op = "RootHash" /\ Succeeded
    /\ Len(smt.levelsUpHashOfEmptyLeaves) > 1

\* C9, its second half: a Generate call that returns either argument error
\* changes no field of the tree.
ArgumentErrorChangesNothing ==
    [][(call'.op = "Generate" /\ result'.err \in {InvalidSize, LeafOverflow}
        /\ generateCalls' = generateCalls + 1)
       => (smt' = smt /\ hashes' = hashes)]_vars

\* C10: once a Generate call has succeeded, no later call changes the level
\* arrays, the empty-subtree digests, treeHeight or the leaf count.
FilledIsImmutable ==
    [][generated =>
          /\ smt'.nodesWithoutEmptyLeavesSubTree = smt.nodesWithoutEmptyLeavesSubTree
          /\ smt'.levelsUpHashOfEmptyLeaves = smt.levelsUpHashOfEmptyLeaves
          /\ smt'.treeHeight = smt.treeHeight
          /\ smt'.noOfNonEmptyLeaves = smt.noOfNonEmptyLeaves]_vars

\* a second successful Generate has appended its levels to those of the first
SecondGenerateAppends ==
    /\ generated /\ generateCalls = 2 /\ Succeeded
    /\ call.op = "Generate"
    /\ Len(smt.nodesWithoutEmptyLeavesSubTree) > smt.treeHeight

\* C11: on a built tree with totalSize = 2^k, GetMerkelProof returns a proof
\* of exactly k = treeHeight - 1 entries for every leafNo below totalSize.
ProofLength ==
    (BuiltOnce /\ call.op = "GetMerkelProof" /\ call.leafNo < built.totalSize)
    => /\ Succeeded
       /\ Len(result.proof) = Log2(built.totalSize)
       /\ Len(result.proof) = smt.treeHeight - 1

\* with no real leaf in a tree of 4, no proof is returned for position 2
NoProofForEmptyPosition ==
    /\ BuiltOnce /\ Len(built.leaves) = 0 /\ built.totalSize = 4
    /\ call.op = "GetMerkelProof" /\ call.leafNo = 2
    /\ result.panic

\* C11, what does hold: every proof that is returned has treeHeight - 1 entries
ReturnedProofLength ==
    (BuiltOnce /\ call.op = "GetMerkelProof" /\ Succeeded)
    => Len(result.proof) = smt.treeHeight - 1

\* ceil(a / b)
CeilDiv(a, b) == (a + b - 1) \div b

\* sum over j = from..to of ceil(n / 2^j)
RECURSIVE LevelSizes(_, _, _)
LevelSizes(n, from, to) ==
    IF from > to THEN 0 ELSE CeilDiv(n, Pow2(from)) + LevelSizes(n, from + 1, to)

\* the number of parentHash calls the claim gives a build of n leaves in T
ParentHashCount(n, T) ==
    (IF shiftCount(T - n) > 0 THEN shiftCount(T - n) - 1 ELSE 0)
    + LevelSizes(n, 1, Log2(T))

\* C12: a successful Generate with n leaves and totalSize T = 2^k calls
\* parentHash exactly max(0, bitlen(T - n) - 1) + sum of ceil(n / 2^j) over
\* j = 1..k times, which is at most (n + 1) * k.
HashCountIsSparse ==
    (FirstGenerate /\ Succeeded)
    => /\ hashes["node"].sums = ParentHashCount(Len(call.leaves), call.totalSize)
       /\ hashes["node"].sums <= (Len(call.leaves) + 1) * Log2(call.totalSize)

HashCountWitness ==
    /\ FirstGenerate /\ Succeeded
    /\ Len(call.leaves) = 3 /\ call.totalSize = 8
    /\ hashes["node"].sums = 2 + 2 + 1 + 1

\* C13: after a successful Generate with n leaves and totalSize = 2^k the tree
\* holds exactly treeHeight = k + 1 levels and level j holds exactly
\* ceil(n / 2^j) digests, j = 0..k: no empty position is materialized.
TreeShape ==
    (FirstGenerate /\ Succeeded)
    => LET n == Len(call.leaves)
           k == Log2(call.totalSize)
       IN /\ smt.treeHeight = k + 1
          /\ Len(smt.nodesWithoutEmptyLeavesSubTree) = smt.treeHeight
          /\ \A j \in 0..k :
                 Len(At(smt.nodesWithoutEmptyLeavesSubTree, j)) = CeilDiv(n, Pow2(j))
          /\ TotalHashes = LevelSizes(n, 0, k)

TreeShapeWitness ==
    /\ FirstGenerate /\ Succeeded
    /\ Len(call.leaves) = 3 /\ call.totalSize = 8
    /\ TotalHashes = 3 + 2 + 1 + 1

\* no digest occurs twice in the sequence chain
StoredOnce(chain) ==
    \A i, j \in 1..Len(chain) : i # j => chain[i] # chain[j]

\* C14: on one tree instance every empty-subtree digest is computed by one
\* parentHash call and stored once: after a Generate call that returned nil
\* the cache of empty-subtree digests holds no digest twice.
EmptyDigestsMemoized ==
    (call.op = "Generate" /\ Succeeded /\ NoFailingHash)
    => StoredOnce(blockTree.cachedAllLevelsHashOfEmptyLeaves)

\* the digest of two empty leaves has been computed and stored a second time
EmptyPairRecomputed ==
    /\ call.op = "Generate" /\ Succeeded /\ NoFailingHash
    /\ Len(blockTree.cachedAllLevelsHashOfEmptyLeaves) = 3
    /\ blockTree.cachedAllLevelsHashOfEmptyLeaves[2]
           = blockTree.cachedAllLevelsHashOfEmptyLeaves[3]
    /\ hashes["node"].sums = 2

\* C14, for the array-of-levels tree: after its first Generate entry i of
\* levelsUpHashOfEmptyLeaves is the digest of 2^i empty leaves, each entry
\* from 1 on took one parentHash call, and the leaf hash was finalized once
\* for the empty block and once per leaf.
EmptyDigestsMemoizedInLevels ==
    (FirstGenerate /\ Succeeded)
    => /\ StoredOnce(smt.levelsUpHashOfEmptyLeaves)
       /\ \A i \in 0..(Len(smt.levelsUpHashOfEmptyLeaves) - 1) :
              At(smt.levelsUpHashOfEmptyLeaves, i) = EmptyChain(i)
       /\ hashes["node"].sums = (Len(smt.levelsUpHashOfEmptyLeaves) - 1)
                                + (TotalHashes - Len(call.leaves))
       /\ "leaf" \in DOMAIN hashes => hashes["leaf"].sums = Len(call.leaves) + 1

\* a fresh instance of the same kind as the one at hand, constructed over the
\* hash objects hs
FreshMachine(hs) ==
    LET c == IF smt.leafHash = "nil"
             THEN NewSMTWithNonLeafHashAndEmptyLeafHashValue(smt.emptyLeafHash, hs)
             ELSE NewSMTWithTwoHashFuncs(hs)
    IN [smt |-> c.smt, hashes |-> c.hashes]

\* what the caller sees of an outcome
Seen(r) == [err |-> r.err, panic |-> r.panic, val |-> r.val]

\* C15: a fresh instance built from the same leaves and totalSize over the same
\* hash objects, after the operations of this instance have finished with
\* them, has the root of this instance, and the same proof for each index.
FreshBuildIsDeterministic ==
    BuiltOnce
    => \E g \in {Generate(FreshMachine(hashes), built.leaves, built.totalSize)} :
         /\ ~g.panic /\ g.err = ""
         /\ Seen(RootHash(g.m)) = Seen(RootHash(Machine))
         /\ call.op = "GetMerkelProof"
                => /\ GetMerkelProof(g.m, call.leafNo).panic = result.panic
                   /\ GetMerkelProof(g.m, call.leafNo).val = result.proof

FreshBuildWitness ==
    /\ BuiltOnce /\ Len(built.leaves) = 3 /\ built.totalSize = 8
    /\ call.op = "GetMerkelProof" /\ Succeeded /\ Len(result.proof) = 3
    /\ hashes["node"].writes > 0
    /\ RootHash(Generate(FreshMachine(hashes), built.leaves, built.totalSize).m).val
           = RootHash(Machine).val

\* the digest the map-of-nodes tree gives a block at the leaf level
LeafDigest_map(block) ==
    IF block = EmptyBlock THEN blockTree.EmptyLeafHash
    ELSE IF blockTree.LeafHash = "nil" THEN block ELSE md5(block)

\* the non-empty blocks of blocks, in input order
RECURSIVE NonEmptyBlocks(_)
NonEmptyBlocks(blocks) ==
    IF blocks = <<>> THEN <<>>
    ELSE IF Head(blocks) = EmptyBlock THEN NonEmptyBlocks(Tail(blocks))
    ELSE <<Head(blocks)>> \o NonEmptyBlocks(Tail(blocks))

\* node i (from 0) at height j of the fully materialized tree whose leaf level
\* is the digests of blocks followed by empty-leaf digests
RECURSIVE DenseNode_map(_, _, _)
DenseNode_map(blocks, j, i) ==
    IF j = 0
    THEN IF i < Len(blocks) THEN LeafDigest_map(At(blocks, i))
         ELSE blockTree.EmptyLeafHash
    ELSE ParentDigest(DenseNode_map(blocks, j - 1, 2 * i),
                      DenseNode_map(blocks, j - 1, 2 * i + 1))

\* no non-empty block follows an empty one
LeftPacked(blocks) ==
    \A i, j \in 1..Len(blocks) :
        (i < j /\ blocks[i] = EmptyBlock) => blocks[j] = EmptyBlock

\* C16: the root that Generate(blocks) builds is the root of the left-packed
\* tree: the non-empty blocks in input order in the leftmost positions, every
\* position to their right empty, so that every non-empty block is under it.
RootIsLeftPacked ==
    (FirstGenerate /\ Succeeded /\ NoFailingHash)
    => blockTree.Root
           = DenseNode_map(NonEmptyBlocks(call.leaves), Log2(Len(call.leaves)), 0)

\* Generate([empty, b2]) returns nil with the root of two empty leaves
BlockAfterEmptyDropped ==
    /\ FirstGenerate /\ Succeeded /\ NoFailingHash
    /\ call.leaves = <<EmptyBlock, << <<2>> >> >>
    /\ blockTree.Root = ParentDigest(blockTree.EmptyLeafHash, blockTree.EmptyLeafHash)

\* C16, for block sequences that are left-packed as handed in
LeftPackedInputRoot ==
    (FirstGenerate /\ Succeeded /\ NoFailingHash /\ LeftPacked(call.leaves))
    => blockTree.Root = DenseNode_map(call.leaves, Log2(Len(call.leaves)), 0)

\* level k (from 1) is built from the level below by the pairing rule
PairedFrom(below, level, k) ==
    /\ \A i \in 0..(Len(below) \div 2 - 1) :
           At(level, i) = ParentDigest(At(below, 2 * i), At(below, 2 * i + 1))
    /\ Len(below) % 2 = 1
           => At(level, Len(below) \div 2)
                  = ParentDigest(At(below, Len(below) - 1), EmptyChain(k - 1))

\* C18: in the built tree entry i of level k is parentHash of entries 2i and
\* 2i+1 of the level below, and the parent of an odd last entry is parentHash
\* of that entry (left) and the digest of an empty subtree of height k-1
\* (right), for every level k = 1..treeHeight-1.
PairingRule ==
    (FirstGenerate /\ Succeeded)
    => \A k \in 1..(smt.treeHeight - 1) :
           PairedFrom(At(smt.nodesWithoutEmptyLeavesSubTree, k - 1),
                      At(smt.nodesWithoutEmptyLeavesSubTree, k), k)

PairingWitness ==
    /\ FirstGenerate /\ Succeeded
    /\ Len(call.leaves) = 3 /\ call.totalSize = 8
    /\ At(At(smt.nodesWithoutEmptyLeavesSubTree, 1), 1)
           = ParentDigest(LeafDigest(At(call.leaves, 2)), EmptyChain(0))
    /\ At(At(smt.nodesWithoutEmptyLeavesSubTree, 3), 0)
           = ParentDigest(At(At(smt.nodesWithoutEmptyLeavesSubTree, 2), 0),
                          EmptyChain(2))

\* the position of the sibling of position x on its level
SiblingIndex(x) == IF x % 2 = 0 THEN x + 1 ELSE x - 1

\* the digest the sibling of leafNo's ancestor on level j stands for: the
\* stored one when the sibling position is inside the stored level, the digest
\* of the empty subtree of 2^j leaves otherwise
SiblingDigest(leafNo, j) ==
    LET s == SiblingIndex(leafNo \div Pow2(j))
        level == At(smt.nodesWithoutEmptyLeavesSubTree, j) IN
    IF s < Len(level) THEN At(level, s) ELSE EmptyChain(j)

\* C19: entry j of a returned proof carries the stored digest of the sibling
\* position s = (leafNo div 2^j) xor 1 of level j when s is inside the stored
\* level, and the digest of the empty subtree of 2^j leaves otherwise.
ProofEntryDigests ==
    (BuiltOnce /\ call.op = "GetMerkelProof" /\ Succeeded)
    => \A j \in 0..(Len(result.proof) - 1) :
           At(result.proof, j).Hash = SiblingDigest(call.leafNo, j)

\* the proof of leaf 0 of 4 leaves in a tree of 16 carries the digests of the
\* empty subtrees of 4 and of 8 leaves in each other's place
SwappedEmptyDigests ==
    /\ BuiltOnce /\ Len(built.leaves) = 4 /\ built.totalSize = 16
    /\ call.op = "GetMerkelProof" /\ call.leafNo = 0 /\ Succeeded
    /\ Len(result.proof) = 4
    /\ At(result.proof, 2).Hash = EmptyChain(3)
    /\ At(result.proof, 3).Hash = EmptyChain(2)

\* bit j of leafNo
Bit(leafNo, j) == (leafNo \div Pow2(j)) % 2

\* C20: a returned proof is ordered bottom-up, and its entry j is flagged as a
\* left sibling exactly when bit j of leafNo is 1.
ProofSideFlags ==
    (call.op = "GetMerkelProof" /\ Succeeded)
    => \A j \in 0..(Len(result.proof) - 1) :
           At(result.proof, j).Left = (Bit(call.leafNo, j) = 1)

\* the proof of leaf 1 of 4 leaves in a tree of 8: left, right, right
ProofSideWitness ==
    /\ BuiltOnce /\ Len(built.leaves) = 4 /\ built.totalSize = 8
    /\ call.op = "GetMerkelProof" /\ call.leafNo = 1 /\ Succeeded
    /\ Len(result.proof) = 3
    /\ At(result.proof, 0).Left
    /\ ~At(result.proof, 1).Left
    /\ ~At(result.proof, 2).Left
    /\ At(result.proof, 0).Hash = LeafDigest(At(built.leaves, 0))

\* Generate of inst's leaves, run alone on the machine its constructor returned
Alone(inst) == Generate(built[inst], call[inst].leaves, call[inst].totalSize)

\* C17: whatever the interleaving of the hash steps of two instances over
\* hash objects of their own, each instance whose operation has returned holds
\* the struct, the hash objects and the result of running its operations alone.
InstancesIndependent ==
    \A inst \in Inst :
        call[inst].pc = "done"
        => \E alone \in {Alone(inst)} :
               /\ smt[inst] = alone.m.smt
               /\ View(inst).hashes = alone.m.hashes
               /\ CASE call[inst].op = "Generate" ->
                         result[inst] = Returned(alone)
                    [] call[inst].op = "RootHash" ->
                         result[inst] = Returned(RootHash(alone.m))
                    [] call[inst].op = "GetMerkelProof" ->
                         result[inst] = ReturnedProof(
                             GetMerkelProof(alone.m, call[inst].leafNo))

\* both instances have built 2 leaves in a tree of 4, each having taken hash
\* steps while the other was inside a hash call, and a holds its root
InterleavedBuilds ==
    /\ \A inst \in Inst :
           /\ call[inst].pc = "done" /\ call[inst].interleaved
           /\ Len(call[inst].leaves) = 2 /\ call[inst].totalSize = 4
           /\ smt[inst].leafHash # "nil"
    /\ call["a"].op = "RootHash" /\ result["a"].err = ""
    /\ result["a"].val = md5(md5(md5(<< <<1>> >>) \o md5(<< <<2>> >>))
                             \o md5(md5(NoBytes) \o md5(NoBytes)))

\* the stored chain obeys the recurrence at each of its indexes
IsEmptyChain(chain) ==
    \A i \in 0..(Len(chain) - 1) : At(chain, i) = EmptyChain(i)

\* C21: in every reachable state, entry 0 of the stored chain of empty-subtree
\* digests is the empty-leaf digest and entry i >= 1 is the parent digest of
\* entry i - 1 with itself.
EmptyChainRecurrence == IsEmptyChain(smt.levelsUpHashOfEmptyLeaves)

\* a second Generate of an empty tree of 4 has appended the digests of the
\* empty subtrees of 2 and 4 leaves after those of the first
ChainAppendedTwice ==
    /\ generateCalls = 2 /\ call.op = "Generate" /\ Succeeded
    /\ Len(smt.levelsUpHashOfEmptyLeaves) = 5
    /\ At(smt.levelsUpHashOfEmptyLeaves, 2) = EmptyChain(2)
    /\ At(smt.levelsUpHashOfEmptyLeaves, 3) = EmptyChain(1)

\* C21, up to the first Generate: the stored chain obeys the recurrence
FirstChainRecurrence ==
    generateCalls <= 1 => IsEmptyChain(smt.levelsUpHashOfEmptyLeaves)

\* the number of right shifts by one that reduce x to 0
RECURSIVE BitLen(_)
BitLen(x) == IF x = 0 THEN 0 ELSE 1 + BitLen(x \div 2)

Max(a, b) == IF a >= b THEN a ELSE b

\* C22: after the first Generate on an instance has succeeded with
\* emptyCount = totalSize - len(leaves), the stored chain holds exactly
\* max(1, bitlen(emptyCount)) entries: entry 0 alone when emptyCount is 0 or
\* 1, entries 0..k when all 2^k leaves are empty.
EmptyChainExtent ==
    (FirstGenerate /\ Succeeded)
    => LET emptyCount == call.totalSize - Len(call.leaves) IN
       /\ Len(smt.levelsUpHashOfEmptyLeaves) = Max(1, BitLen(emptyCount))
       /\ emptyCount <= 1 => Len(smt.levelsUpHashOfEmptyLeaves) = 1
       /\ Len(call.leaves) = 0
              => Len(smt.levelsUpHashOfEmptyLeaves) = Log2(call.totalSize) + 1

\* 3 leaves in a tree of 8: 5 empty positions, a chain of 3 entries
EmptyChainExtentWitness ==
    /\ FirstGenerate /\ Succeeded
    /\ Len(call.leaves) = 3 /\ call.totalSize = 8
    /\ Len(smt.levelsUpHashOfEmptyLeaves) = 3
    /\ At(smt.levelsUpHashOfEmptyLeaves, 2) = EmptyChain(2)

\* the arguments of the parentHash call just made
Item1 == At(call.leaves, 0)
Item2 == At(call.leaves, 1)

\* the digest parentHash returns for (item1, item2) in the current state
ParentHashOf(item1, item2) == parentHash(Machine, item1, item2).val

\* C23 as stated: parentHash(left, right) is the digest of left followed by
\* right, and parentHash(a, b) differs from parentHash(b, a) for every a # b.
ParentHashNeverCommutes ==
    (call.op = "parentHash" /\ Succeeded /\ NoFailingHash)
    => /\ result.val = md5(Item1 \o Item2)
       /\ Item1 # Item2 => result.val # ParentHashOf(Item2, Item1)

\* the number of bytes of an item: 1 for a raw byte, Size() for a digest
DigestSize == 16
RECURSIVE ByteLen(_)
ByteLen(item) ==
    IF item = <<>> THEN 0
    ELSE (IF Len(Head(item)) = 1 THEN 1 ELSE DigestSize) + ByteLen(Tail(item))

\* C23 amended: parentHash(left, right) is the digest of left followed by
\* right, and parentHash(a, b) differs from parentHash(b, a) for every a # b
\* of the same length.
ParentHashOrder ==
    (call.op = "parentHash" /\ Succeeded /\ NoFailingHash)
    => /\ result.val = md5(Item1 \o Item2)
       /\ (Item1 # Item2 /\ ByteLen(Item1) = ByteLen(Item2))
              => result.val # ParentHashOf(Item2, Item1)

\* parentHash of two different digests: the digest of the first followed by
\* the second, which is not that of the second followed by the first
ParentHashOrderWitness ==
    /\ call.op = "parentHash" /\ Succeeded /\ NoFailingHash
    /\ Item1 = md5(NoBytes) /\ Item2 = md5(<< <<1>> >>)
    /\ result.val = md5(md5(NoBytes) \o md5(<< <<1>> >>))
    /\ result.val # md5(md5(<< <<1>> >>) \o md5(NoBytes))

\* level 0 of the built tree
LeafLevel == At(smt.nodesWithoutEmptyLeavesSubTree, 0)

\* C24: without a leaf hash, level 0 of the tree the first Generate builds is
\* the supplied blocks in input order, no hash object served the leaves (every
\* Write belongs to a parentHash call, two per Sum) and the empty-leaf digest
\* is the value given to the constructor; with a leaf hash, entry i of level 0
\* is the digest of block i alone, one Sum per block.
LeafPassThrough ==
    (FirstGenerate /\ Succeeded)
    => IF smt.leafHash = "nil"
       THEN /\ LeafLevel = call.leaves
            /\ DOMAIN hashes = {"node"}
            /\ hashes["node"].writes = 2 * hashes["node"].sums
            /\ smt.emptyLeafHash = md5(NoBytes)
            /\ At(smt.levelsUpHashOfEmptyLeaves, 0) = md5(NoBytes)
       ELSE /\ Len(LeafLevel) = Len(call.leaves)
            /\ \A i \in 0..(Len(call.leaves) - 1) :
                   At(LeafLevel, i) = md5(At(call.leaves, i))
            /\ hashes["leaf"].sums = Len(call.leaves) + 1
            /\ hashes["leaf"].writes = Len(call.leaves) + 1

\* three blocks in a tree of 4 without a leaf hash: level 0 is the blocks
LeafPassThroughWitness ==
    /\ FirstGenerate /\ Succeeded
    /\ smt.leafHash = "nil"
    /\ call.totalSize = 4
    /\ LeafLevel = << << <<1>> >>, << <<2>> >>, << <<3>> >> >>

\* no hash object of the instance holds bytes written and not yet reset
AllReset == \A id \in DOMAIN hashes : hashes[id].acc = NoBytes

\* C25: whenever leafHashFunc, parentHash or emptyLeafHash has returned, with
\* a digest or with the error of a failed Write, no hash object holds
\* accumulated input, and a digest returned is that of the call's own
\* arguments; also when one hash object is both the leaf and the non-leaf
\* hash, and when emptyLeafHash is called on an object used before.
ResetAtEveryReturn ==
    /\ AllReset
    /\ Succeeded =>
          /\ call.op = "parentHash" => result.val = md5(Item1 \o Item2)
          /\ (call.op = "leafHashFunc" /\ smt.leafHash # "nil")
                 => result.val = md5(At(call.leaves, 0))
          /\ call.op = "emptyLeafHash" => result.val = md5(NoBytes)

\* parentHash has failed on its second Write after the first took a byte, and
\* the hash object is empty
SecondWriteFailed ==
    /\ call.op = "parentHash" /\ result.err = HashError
    /\ Item1 = << <<1>> >>
    /\ hashes["node"].failAt = hashes["node"].writes
    /\ hashes["node"].writes % 2 = 0
    /\ smt.leafHash = "leaf"
    /\ AllReset

\* C26: after a successful Generate, the build, RootHash and GetMerkelProof
\* for every leafNo below totalSize read the level arrays and the chain of
\* empty-subtree digests inside their populated range only: no call ends in
\* an index-out-of-range panic.
NoOutOfRangeRead ==
    /\ FirstGenerate => ~result.panic
    /\ (BuiltOnce /\ call.op = "RootHash") => ~result.panic
    /\ (BuiltOnce /\ call.op = "GetMerkelProof" /\ call.leafNo < built.totalSize)
           => ~result.panic

\* one leaf in a tree of 4, proof of position 3: the left sibling, position 2,
\* is beyond the one stored digest of level 0
LeftSiblingBeyondLevel ==
    /\ BuiltOnce /\ Len(built.leaves) = 1 /\ built.totalSize = 4
    /\ call.op = "GetMerkelProof" /\ call.leafNo = 3
    /\ result.panic

\* C26, the build and RootHash: neither reads out of range
BuildReadsInRange ==
    /\ FirstGenerate => ~result.panic
    /\ (BuiltOnce /\ call.op = "RootHash") => ~result.panic

\* C27: Generate returns, with a root or an error, for every block sequence
\* it accepts, a single block and two blocks included: the range-splitting
\* build never calls itself on the range it was called with.
GenerateTerminates ==
    call.op = "Generate" => result.err # "fatal error: stack overflow"

\* Generate of one non-empty block has recursed on the range 0..0 for ever
SingleBlockRecursion ==
    /\ call.op = "Generate" /\ generateCalls = 1
    /\ Len(call.leaves) = 1 /\ At(call.leaves, 0) # EmptyBlock
    /\ result.panic /\ result.err = "fatal error: stack overflow"

\* C27, for two blocks and more: Generate returns
GenerateOfPairsTerminates ==
    (call.op = "Generate" /\ Len(call.leaves) # 1) => ~result.panic

(* The standard Tree: what a verifier computes from a proof. *)

\* the hash of left followed by right
Combine(left, right) == md5(Bytes(left) \o Bytes(right))

\* the hash of the smaller followed by the larger, byte-wise
CombineSorted(a, b) ==
    IF Compare(a, b) > 0 THEN Combine(b, a) ELSE Combine(a, b)

\* the digest a proof leads to from the digest h of the leaf
RECURSIVE FoldTreeProof(_, _, _)
FoldTreeProof(sorting, h, proof) ==
    IF proof = <<>> THEN h
    ELSE FoldTreeProof(sorting,
                   IF sorting THEN CombineSorted(h, Head(proof).Hash)
                   ELSE IF Head(proof).Left THEN Combine(Head(proof).Hash, h)
                   ELSE Combine(h, Head(proof).Hash),
                   Tail(proof))

\* the blocks of the tree, once Generate has returned nil
TreeBuilt == generated /\ blockTree.nodes # <<>>

\* the proof of a leaf of the tree leads to the root
ProofLeadsToRoot ==
    /\ ~result.panic /\ result.err = ""
    /\ FoldTreeProof(blockTree.enableHashSorting,
                 At(blockTree.nodes, call.leafNo).Hash, result.proof)
           = RootHash_tree(TreeMachine).val

\* C28: for a Tree generated over any non-empty block sequence, of a power
\* of two blocks or not, and every leafIndex below the block count, folding
\* GetMerkleProof(leafIndex) from the leaf's stored hash, each entry on the
\* side its Left flag gives or in sorted order under hash sorting, yields
\* RootHash(); no read of the proof is outside the node array, and a
\* leafIndex at or above the block count gets an error.
MerkleProofRoundTrip ==
    /\ call.op = "Generate" => ~result.panic
    /\ call.op = "GetMerkleProof" =>
          /\ ~result.panic
          /\ (~TreeBuilt \/ call.leafNo >= Len(built.leaves)) => result.err # ""
          /\ (TreeBuilt /\ call.leafNo < Len(built.leaves)) => ProofLeadsToRoot

\* the proof of the first of the blocks [1], nil: its one entry is the nil
\* block on the right, while the root is the first block itself, unhashed
NilRightBlockProof ==
    /\ TreeBuilt /\ built.leaves = << << <<1>> >>, NilBytes >>
    /\ call.op = "GetMerkleProof" /\ call.leafNo = 0
    /\ Len(result.proof) = 1 /\ IsNil(result.proof[1].Hash)
    /\ RootHash_tree(TreeMachine).val = << <<1>> >>

\* no nil block at an odd position of the block sequence
NoNilRightBlock ==
    \A i \in 1..Len(built.leaves) : i % 2 = 0 => ~IsNil(built.leaves[i])

\* C28, for block sequences whose right-hand blocks are not nil: the round
\* trip, the reads and the error all hold
MerkleProofRoundTripOfHashes ==
    NoNilRightBlock => MerkleProofRoundTrip

\* the smaller and the larger of two byte strings, byte-wise
MinBytes(a, b) == IF Compare(a, b) <= 0 THEN a ELSE b
MaxBytes(a, b) == IF Compare(a, b) <= 0 THEN b ELSE a

\* the nodes of the tree that have two children, both with a hash
PairParents ==
    { p \in 1..Len(blockTree.nodes) :
        /\ blockTree.nodes[p].Left # -1 /\ blockTree.nodes[p].Right # -1
        /\ ~IsNil(At(blockTree.nodes, blockTree.nodes[p].Left).Hash)
        /\ ~IsNil(At(blockTree.nodes, blockTree.nodes[p].Right).Hash) }

LeftHash(p) == At(blockTree.nodes, blockTree.nodes[p].Left).Hash
RightHash(p) == At(blockTree.nodes, blockTree.nodes[p].Right).Hash

\* C29: with hash sorting enabled generateNode(l, r) = generateNode(r, l) =
\* hash(min(l, r) followed by max(l, r)) for all non-nil l and r, compared
\* byte-wise; with it disabled the parent digest is hash(l followed by r).
\* Stated of every parent Generate computed from two hashes and of
\* generateNode called on the two once more, in both orders.
SortedParentDigest ==
    TreeBuilt =>
      \A p \in PairParents :
        /\ blockTree.nodes[p].Hash =
              IF blockTree.enableHashSorting
              THEN md5(MinBytes(LeftHash(p), RightHash(p))
                       \o MaxBytes(LeftHash(p), RightHash(p)))
              ELSE md5(LeftHash(p) \o RightHash(p))
        /\ generateNode(TreeMachine, LeftHash(p), RightHash(p)).val.Hash
              = blockTree.nodes[p].Hash
        /\ blockTree.enableHashSorting =>
              generateNode(TreeMachine, RightHash(p), LeftHash(p)).val.Hash
                  = blockTree.nodes[p].Hash

\* a tree with hash sorting one of whose parents has the larger hash on the
\* left: its digest is that of the right hash followed by the left one
SortedParentWitness ==
    /\ TreeBuilt /\ call.op = "Generate"
    /\ \E p \in PairParents :
         /\ Compare(LeftHash(p), RightHash(p)) > 0
         /\ blockTree.enableHashSorting
         /\ blockTree.nodes[p].Hash = md5(RightHash(p) \o LeftHash(p))
         /\ blockTree.nodes[p].Hash # md5(LeftHash(p) \o RightHash(p))

\* level k of the tree as a window of its nodes, the root level being 1, and
\* node i of it, i counted from 0
TreeLevel(k) == blockTree.levels[k]
TreeNode(k, i) == At(blockTree.nodes, TreeLevel(k).off + i)

\* node i of level k is the last of an odd number of nodes
LoneNode(k, i) == i = TreeLevel(k).len - 1 /\ TreeLevel(k).len % 2 = 1

\* the digest of a parent of two children
TreeParentDigest(l, r) ==
    IF blockTree.enableHashSorting THEN CombineSorted(l, r) ELSE Combine(l, r)

\* the parents of two children, as <<level, index>>
TwoChildParents ==
    { ki \in (1..Len(blockTree.levels)) \X (0..Len(blockTree.nodes)) :
        /\ ki[1] < Len(blockTree.levels)
        /\ ki[2] < TreeLevel(ki[1]).len
        /\ 2 * ki[2] + 1 < TreeLevel(ki[1] + 1).len }

\* the proof entries of the path of node i of level k, from level k up to
\* the children of the root: the sibling at every level where the node of
\* the path is not a lone node
RECURSIVE PathSiblings(_, _)
PathSiblings(k, i) ==
    IF k <= 1 THEN <<>>
    ELSE (IF LoneNode(k, i) THEN <<>>
          ELSE << [Hash |-> TreeNode(k, proofSibling(i)).Hash,
                   Left |-> (i % 2 = 1)] >>)
         \o PathSiblings(k - 1, i \div 2)

\* the levels of the tree: ceil(n/2) nodes above n, one root, a lone node
\* copied into its parent and every other parent over its two children
PromotedLevels(hashed) ==
    /\ TreeLevel(Len(blockTree.levels)) = [off |-> 0, len |-> Len(built.leaves)]
    /\ TreeLevel(1).len = 1
    /\ \A k \in 1..(Len(blockTree.levels) - 1) :
         /\ TreeLevel(k).len = CeilDiv(TreeLevel(k + 1).len, 2)
         /\ \A i \in 0..(TreeLevel(k).len - 1) :
              /\ TreeNode(k, i).Left = TreeLevel(k + 1).off + 2 * i
              /\ IF LoneNode(k + 1, 2 * i)
                 THEN /\ TreeNode(k, i).Right = -1
                      /\ TreeNode(k, i).Hash = Bytes(TreeNode(k + 1, 2 * i).Hash)
                 ELSE /\ TreeNode(k, i).Right = TreeLevel(k + 1).off + 2 * i + 1
                      /\ <<k, i>> \in hashed =>
                            TreeNode(k, i).Hash =
                               TreeParentDigest(TreeNode(k + 1, 2 * i).Hash,
                                                TreeNode(k + 1, 2 * i + 1).Hash)
    /\ hashes["node"].sums = Cardinality(hashed)
    /\ hashes["node"].writes = Cardinality(hashed)
    /\ (call.op = "GetMerkleProof" /\ call.leafNo < Len(built.leaves)) =>
          /\ ~result.panic /\ result.err = ""
          /\ result.proof = PathSiblings(Len(blockTree.levels), call.leafNo)

\* C30: at every level of the standard Tree with an odd node count the last
\* node has no right sibling, its parent's digest is a copy of its own with
\* no hash invocation, and GetMerkleProof emits no entry for that level on
\* the path of that node; every other parent is the hash of its two
\* children's digests, each level above n nodes holds ceil(n/2), and the
\* top level is a single root.
LoneNodePromotion ==
    TreeBuilt => PromotedLevels(TwoChildParents)

\* the blocks [1], nil: the root has two children and is the first block,
\* no hash having been invoked
NilChildNotHashed ==
    /\ TreeBuilt /\ built.leaves = << << <<1>> >>, NilBytes >>
    /\ TwoChildParents = {<<1, 0>>}
    /\ TreeNode(1, 0).Right = 1
    /\ TreeNode(1, 0).Hash = << <<1>> >>
    /\ hashes["node"].sums = 0

\* the parents of two children whose right child has a hash
HashedParents ==
    { ki \in TwoChildParents : ~IsNil(TreeNode(ki[1] + 1, 2 * ki[2] + 1).Hash) }

\* C30, the parents of a nil right block apart: the lone nodes are promoted
\* by copy, the other parents are hashes of their children, one invocation
\* each, and the proof skips the levels of lone nodes
LoneNodePromotionOfHashes ==
    TreeBuilt => PromotedLevels(HashedParents)

\* five blocks, the proof of the last: it is alone at the leaf level and its
\* parent alone above, so that the proof has the one entry of the third level
LoneNodeTwiceWitness ==
    /\ TreeBuilt /\ Len(built.leaves) = 5
    /\ \A i \in 1..5 : ~IsNil(built.leaves[i])
    /\ call.op = "GetMerkleProof" /\ call.leafNo = 4
    /\ Len(result.proof) = 1 /\ result.proof[1].Left
    /\ TreeNode(3, 2).Right = -1 /\ TreeNode(2, 1).Right = -1
====
